---- MODULE Spec2Model ----
(***************************************************************************)
(* The whiteboard store (hooks/use-whiteboard-store.ts and its slices) and *)
(* the event handlers of the Whiteboard component that drive it            *)
(* (components/whiteboard.tsx), as one state machine.                      *)
(*                                                                         *)
(* The store is the record st; the component's local React state and refs  *)
(* are the record ui.  Every store operation is an operator from a store   *)
(* record to a store record; every event handler is one action that        *)
(* composes the store operations it calls, reading the values its closure  *)
(* captured (the state before the handler ran).                            *)
(*                                                                         *)
(* Numbers: canvas coordinates are integers (pixels); a rotation is stored *)
(* in degrees and only multiples of 90 occur; text boxes are computed in   *)
(* tenths of a pixel because lineHeight = fontSize * 1.2.                  *)
(***************************************************************************)
EXTENDS Integers, Sequences, FiniteSets, TLC

VARIABLES st, ui, now, obs

vars == <<st, ui, now, obs>>

(***************************************************************************)
(* Bounds of the model.                                                    *)
(***************************************************************************)
MaxHistory == 4
MaxStrokes == 2
MaxNow == 1
MaxText == 2
MaxPoints == 2
MaxDocs == 1
MaxCoord == 40
MaxPan == 40
MaxFontSize == 48
MaxRotation == 180
MaxSteps == 3
\* strokes of a scene the store's scene operations are applied to
MaxScene == 2
\* gestures applied in a row to such a scene
MaxGestures == 1
\* the document operations explored after the first two saves
MaxDocSteps == 3
\* significant bits of a number (a JavaScript number has 53)
SignificandBits == 12

(***************************************************************************)
(* Values.                                                                 *)
(***************************************************************************)
Null == [null |-> TRUE]
NoHandle == "none"
\* desiredColumnRef holds a column or null
NoColumn == 0 - 1

Pt(x, y) == [x |-> x, y |-> y]

Tools == {"pen", "eraser", "pan", "rectangle", "ellipse", "line", "text", "select"}
ShapeTools == {"rectangle", "ellipse", "line"}
Handles == {"nw", "ne", "sw", "se", "n", "s", "w", "e"}

\* the toolbar's palette and widths (two of each are enough to tell a change)
Colors == {"#2563eb", "#dc2626"}
StrokeWidths == {4, 8}

\* keys of the text editor: a letter, the space and the newline of Enter
Newline == "\n"
Whitespace == {" ", Newline}
CharKeys == {"a", " "}

Min(a, b) == IF a <= b THEN a ELSE b
Max(a, b) == IF a >= b THEN a ELSE b
Abs(a) == IF a >= 0 THEN a ELSE 0 - a

\* Array.prototype.includes / find / filter / map on sequences
IncludesAny(seq, v) ==
    Len(seq) > 0
Includes(seq, v) ==
    \E i \in 1..Len(seq) : seq[i] = v

Ids(strokes) == {strokes[i].id : i \in 1..Len(strokes)}

\* String.prototype.trim() is non-empty
TrimNonEmpty(text) == \E i \in 1..Len(text) : text[i] \notin Whitespace

(***************************************************************************)
(* Strokes.  An optional field that is absent has the value the code reads *)
(* it as: startPoint/endPoint Null, text <<>>, fontSize 0, mathMode FALSE, *)
(* selected FALSE, rotation 0.                                             *)
(***************************************************************************)
Stroke(id, type, points, color, strokeWidth, startPoint, endPoint, text, fontSize, mathMode) ==
    [id |-> id, type |-> type, points |-> points, color |-> color,
     strokeWidth |-> strokeWidth, startPoint |-> startPoint, endPoint |-> endPoint,
     text |-> text, fontSize |-> fontSize, mathMode |-> mathMode,
     selected |-> FALSE, rotation |-> 0]

\* handleMouseDown (pen): the draft of the pen tool
PenStroke(id, point, color, strokeWidth) ==
    Stroke(id, "pen", <<point>>, color, strokeWidth, Null, Null, <<>>, 0, FALSE)

\* startShape: the draft of a shape tool
ShapeStroke(id, type, point, color, strokeWidth) ==
    Stroke(id, type, <<>>, color, strokeWidth, point, point, <<>>, 0, FALSE)

\* updateText / finishTextEdit: a new text stroke
TextStroke(id, x, y, color, strokeWidth, text, mathMode) ==
    Stroke(id, "text", <<Pt(x, y)>>, color, strokeWidth, Null, Null, text,
           Max(16, strokeWidth * 4), mathMode)

HasEnds(stroke) == stroke.startPoint # Null /\ stroke.endPoint # Null

\* strokes.find((s) => s.id === id): the index of the first match, 0 if none
FindById(strokes, id) ==
    IF \E i \in 1..Len(strokes) : strokes[i].id = id
    THEN CHOOSE i \in 1..Len(strokes) :
            /\ strokes[i].id = id
            /\ \A j \in 1..(i - 1) : strokes[j].id # id
    ELSE 0

\* the scene without the transient selected flags
Unselected(strokes) == [i \in 1..Len(strokes) |-> [strokes[i] EXCEPT !.selected = FALSE]]

(***************************************************************************)
(* History: every committing operation truncates history to                *)
(* historyIndex + 1 entries and appends the new scene.  historyIndex is    *)
(* 0-based as in the code; history[historyIndex + 1] is its entry.         *)
(***************************************************************************)
\* the push that appends without truncating history to historyIndex + 1
PushHistoryKeepFuture(s, newStrokes) ==
    LET newHistory == Append(s.history, newStrokes)
    IN  [s EXCEPT !.history = newHistory,
                  !.historyIndex = s.historyIndex + 1,
                  !.isModified = TRUE]

PushHistory(s, newStrokes) ==
    LET newHistory == Append(SubSeq(s.history, 1, s.historyIndex + 1), newStrokes)
    IN  [s EXCEPT !.history = newHistory,
                  !.historyIndex = Len(newHistory) - 1,
                  !.isModified = TRUE]

\* an add that puts the stroke under the others
addStrokeFirst(s, stroke) ==
    LET newStrokes == <<stroke>> \o s.strokes
    IN  [PushHistory(s, newStrokes) EXCEPT !.touched = TRUE, !.strokes = newStrokes]

addStroke(s, stroke) ==
    LET newStrokes == Append(s.strokes, stroke)
    IN  [PushHistory(s, newStrokes) EXCEPT !.touched = TRUE, !.strokes = newStrokes]

\* undo without the guard on historyIndex
undoUnguarded(s) ==
    [s EXCEPT !.touched = TRUE,
              !.strokes = IF s.historyIndex > 0 THEN s.history[(s.historyIndex - 1) + 1] ELSE <<>>,
              !.historyIndex = s.historyIndex - 1,
              !.isModified = TRUE]

undo(s) ==
    IF s.historyIndex > 0
    THEN [s EXCEPT !.touched = TRUE, !.strokes = s.history[(s.historyIndex - 1) + 1],
                   !.historyIndex = s.historyIndex - 1,
                   !.isModified = TRUE]
    ELSE s

\* redo without the guard on historyIndex
redoUnguarded(s) ==
    [s EXCEPT !.touched = TRUE,
              !.strokes = IF s.historyIndex < Len(s.history) - 1
                          THEN s.history[(s.historyIndex + 1) + 1] ELSE <<>>,
              !.historyIndex = s.historyIndex + 1,
              !.isModified = TRUE]

redo(s) ==
    IF s.historyIndex < Len(s.history) - 1
    THEN [s EXCEPT !.touched = TRUE, !.strokes = s.history[(s.historyIndex + 1) + 1],
                   !.historyIndex = s.historyIndex + 1,
                   !.isModified = TRUE]
    ELSE s

canUndo(s) == s.historyIndex > 0
canRedo(s) == s.historyIndex < Len(s.history) - 1

(***************************************************************************)
(* Core settings.                                                          *)
(***************************************************************************)
clearSelection(s) ==
    [s EXCEPT !.selectedStrokes = <<>>,
              !.touched = TRUE, !.strokes = [i \in 1..Len(s.strokes) |-> [s.strokes[i] EXCEPT !.selected = FALSE]]]

setCurrentToolKeepSelection(s, tool) ==
    [s EXCEPT !.currentTool = tool]
setCurrentTool(s, tool) ==
    LET s1 == [s EXCEPT !.currentTool = tool]
    IN  IF tool # "select" THEN clearSelection(s1) ELSE s1

\* the recolor that pushes the scene it read instead of the recolored one
setCurrentColorStale(s, color) ==
    IF s.currentTool = "select" /\ Len(s.selectedStrokes) > 0
    THEN LET newStrokes == [i \in 1..Len(s.strokes) |->
                               IF Includes(s.selectedStrokes, s.strokes[i].id)
                               THEN [s.strokes[i] EXCEPT !.color = color]
                               ELSE s.strokes[i]]
         IN  [PushHistory(s, s.strokes) EXCEPT !.currentColor = color,
                                               !.touched = TRUE, !.strokes = newStrokes]
    ELSE [s EXCEPT !.currentColor = color]

setCurrentColor(s, color) ==
    IF s.currentTool = "select" /\ Len(s.selectedStrokes) > 0
    THEN LET newStrokes == [i \in 1..Len(s.strokes) |->
                               IF Includes(s.selectedStrokes, s.strokes[i].id)
                               THEN [s.strokes[i] EXCEPT !.color = color]
                               ELSE s.strokes[i]]
         IN  [PushHistory(s, newStrokes) EXCEPT !.currentColor = color,
                                                !.touched = TRUE, !.strokes = newStrokes]
    ELSE [s EXCEPT !.currentColor = color]

setCurrentStrokeWidth(s, width) == [s EXCEPT !.currentStrokeWidth = width]
setZoom(s, zoom) == [s EXCEPT !.zoom = zoom]
setPan(s, x, y) == [s EXCEPT !.panX = x, !.panY = y]
resetView(s) == [s EXCEPT !.zoom = 1, !.panX = 0, !.panY = 0]

(***************************************************************************)
(* Drawing: the pen draft and the shape draft.                             *)
(***************************************************************************)
setCurrentStroke(s, stroke) == [s EXCEPT !.currentStroke = stroke]

finishStroke(s) ==
    IF s.currentStroke # Null
    THEN [addStroke(s, s.currentStroke) EXCEPT !.currentStroke = Null,
                                               !.currentTool = "select"]
    ELSE s

startShape(s, point, t) ==
    [s EXCEPT !.isDrawingShape = TRUE,
              !.shapeStartPoint = point,
              !.currentStroke = ShapeStroke(t, s.currentTool, point,
                                            s.currentColor, s.currentStrokeWidth)]

updateShape(s, point) ==
    IF s.currentStroke # Null /\ s.isDrawingShape
    THEN [s EXCEPT !.currentStroke = [s.currentStroke EXCEPT !.endPoint = point]]
    ELSE s

finishShape(s) ==
    IF s.currentStroke # Null /\ s.isDrawingShape
    THEN [addStroke(s, s.currentStroke) EXCEPT !.currentStroke = Null,
                                               !.isDrawingShape = FALSE,
                                               !.shapeStartPoint = Null,
                                               !.currentTool = "select"]
    ELSE s

(***************************************************************************)
(* Geometry.  Boxes are records [minX, minY, maxX, maxY] in tenths of a    *)
(* pixel.  Math.cos / Math.sin are taken at the multiples of 90 degrees,   *)
(* the only rotations of the model.                                        *)
(***************************************************************************)
Cos(deg) == CASE deg % 360 = 0 -> 1 [] deg % 360 = 180 -> 0 - 1 [] OTHER -> 0
Sin(deg) == CASE deg % 360 = 90 -> 1 [] deg % 360 = 270 -> 0 - 1 [] OTHER -> 0

rotatePoint(x, y, cx, cy, angle) ==
    LET dx == x - cx
        dy == y - cy
    IN  Pt(cx + dx * Cos(angle) - dy * Sin(angle), cy + dx * Sin(angle) + dy * Cos(angle))

\* Math.atan2(dy, dx) in degrees, for the directions along the axes
AxisAligned(dy, dx) == dx = 0 \/ dy = 0
Atan2(dy, dx) ==
    CASE dy = 0 /\ dx >= 0 -> 0
      [] dy = 0 /\ dx < 0 -> 180
      [] dx = 0 /\ dy > 0 -> 90
      [] OTHER -> 0 - 90

RECURSIVE SeqMin(_), SeqMax(_)
SeqMin(q) == IF Len(q) = 1 THEN q[1] ELSE Min(q[1], SeqMin(Tail(q)))
SeqMax(q) == IF Len(q) = 1 THEN q[1] ELSE Max(q[1], SeqMax(Tail(q)))

Box(minX, minY, maxX, maxY) == [minX |-> minX, minY |-> minY, maxX |-> maxX, maxY |-> maxY]

\* the box that encloses a non-empty sequence of points
Enclose(pts) ==
    Box(SeqMin([i \in 1..Len(pts) |-> pts[i].x]), SeqMin([i \in 1..Len(pts) |-> pts[i].y]),
        SeqMax([i \in 1..Len(pts) |-> pts[i].x]), SeqMax([i \in 1..Len(pts) |-> pts[i].y]))

\* text.split("\n")
RECURSIVE Split(_)
Split(text) ==
    IF \E i \in 1..Len(text) : text[i] = Newline
    THEN LET k == CHOOSE i \in 1..Len(text) :
                     text[i] = Newline /\ \A j \in 1..(i - 1) : text[j] # Newline
         IN  <<SubSeq(text, 1, k - 1)>> \o Split(SubSeq(text, k + 1, Len(text)))
    ELSE <<text>>

\* ctx.measureText(line).width in tenths of a pixel: the font metrics of the
\* browser, taken as 0.6 em per character
measureText(line, fontSize) == Len(line) * fontSize * 6

\* the unrotated text box: w = max(20, widths), h = max(lineHeight, lineHeight * lines)
TextW(stroke) ==
    LET fontSize == IF stroke.fontSize # 0 THEN stroke.fontSize ELSE 16
        lines == Split(stroke.text)
    IN  Max(200, SeqMax([i \in 1..Len(lines) |-> measureText(lines[i], fontSize)]))
TextH(stroke) ==
    LET fontSize == IF stroke.fontSize # 0 THEN stroke.fontSize ELSE 16
        lineHeight == fontSize * 12
    IN  Max(lineHeight, lineHeight * Len(Split(stroke.text)))

Scale(p) == Pt(p.x * 10, p.y * 10)

\* the box of the corners of a box turned by rotation about (cx, cy)
Turned(b, cx, cy, rotation) ==
    Enclose(<<rotatePoint(b.minX, b.minY, cx, cy, rotation),
              rotatePoint(b.maxX, b.minY, cx, cy, rotation),
              rotatePoint(b.maxX, b.maxY, cx, cy, rotation),
              rotatePoint(b.minX, b.maxY, cx, cy, rotation)>>)

Padded(b, pad) == Box(b.minX - pad, b.minY - pad, b.maxX + pad, b.maxY + pad)

calculateBounds(stroke) ==
    LET rotation == stroke.rotation
        pad == 20
        Text(point, w, h) ==
            IF rotation # 0
            THEN Padded(Turned(Box(point.x, point.y, point.x + w, point.y + h),
                               point.x + w \div 2, point.y + h \div 2, rotation), pad)
            ELSE Box(point.x - pad, point.y - pad, point.x + w + pad, point.y + h + pad)
        Ends(b0) ==
            IF rotation # 0
            THEN Turned(b0, (b0.minX + b0.maxX) \div 2, (b0.minY + b0.maxY) \div 2, rotation)
            ELSE b0
        Turn(pts, cx, cy) ==
            Enclose([i \in 1..Len(pts) |-> rotatePoint(pts[i].x, pts[i].y, cx, cy, rotation)])
        Around(pts, u) ==
            IF rotation # 0
            THEN Turn(pts, (u.minX + u.maxX) \div 2, (u.minY + u.maxY) \div 2)
            ELSE u
        Path(pts) == Around(pts, Enclose(pts))
    IN  IF stroke.type = "text" /\ Len(stroke.points) > 0
        THEN Text(Scale(stroke.points[1]), TextW(stroke), TextH(stroke))
        ELSE IF HasEnds(stroke)
        THEN Ends(Enclose(<<Scale(stroke.startPoint), Scale(stroke.endPoint)>>))
        ELSE IF Len(stroke.points) > 0
        THEN Path([i \in 1..Len(stroke.points) |-> Scale(stroke.points[i])])
        ELSE Box(0, 0, 0, 0)

(***************************************************************************)
(* Hit detection (HitDetector in lib/canvas-utils.ts).                     *)
(***************************************************************************)
InBox(p, b) == p.x >= b.minX /\ p.x <= b.maxX /\ p.y >= b.minY /\ p.y <= b.maxY

HitsStroke(point, stroke) ==
    IF stroke.type = "text" /\ Len(stroke.points) > 0
    THEN InBox(Scale(point), calculateBounds(stroke))
    ELSE IF HasEnds(stroke)
    THEN InBox(point, Box(Min(stroke.startPoint.x, stroke.endPoint.x) - 12,
                          Min(stroke.startPoint.y, stroke.endPoint.y) - 12,
                          Max(stroke.startPoint.x, stroke.endPoint.x) + 12,
                          Max(stroke.startPoint.y, stroke.endPoint.y) + 12))
    ELSE IF Len(stroke.points) > 0
    THEN \E i \in 1..Len(stroke.points) :
            LET p == stroke.points[i]
                r == Max(14, stroke.strokeWidth + 10)
            IN  (p.x - point.x) * (p.x - point.x) + (p.y - point.y) * (p.y - point.y) <= r * r
    ELSE FALSE

\* the index of the topmost stroke under the point (the loop runs from the
\* last stroke down), 0 for null
getStrokeAtPointFirst(point, strokes) ==
    LET Low(hits) == IF hits = {} THEN 0 ELSE CHOOSE i \in hits : \A j \in hits : i <= j
    IN  Low({i \in 1..Len(strokes) : HitsStroke(point, strokes[i])})
getStrokeAtPoint(point, strokes) ==
    LET Top(hits) == IF hits = {} THEN 0 ELSE CHOOSE i \in hits : \A j \in hits : j <= i
    IN  Top({i \in 1..Len(strokes) : HitsStroke(point, strokes[i])})

\* the handles in the order the code tests them, as offsets in units of (hw, hh)
HandleOrder == <<"nw", "ne", "sw", "se", "n", "s", "w", "e">>
HandleX(name, hw) ==
    CASE name \in {"nw", "sw", "w"} -> 0 - hw [] name \in {"ne", "se", "e"} -> hw [] OTHER -> 0
HandleY(name, hh) ==
    CASE name \in {"nw", "ne", "n"} -> 0 - hh [] name \in {"sw", "se", "s"} -> hh [] OTHER -> 0

\* the unrotated box getResizeHandle lays the handles around
HandleBox(stroke) ==
    LET Of(pts) ==
            IF stroke.type = "text" /\ Len(stroke.points) > 0
            THEN Box(pts[1].x, pts[1].y, pts[1].x + TextW(stroke), pts[1].y + TextH(stroke))
            ELSE IF HasEnds(stroke)
            THEN Enclose(<<Scale(stroke.startPoint), Scale(stroke.endPoint)>>)
            ELSE IF Len(pts) > 0 THEN Enclose(pts)
            ELSE Box(0, 0, 0, 0)
    IN  Of([i \in 1..Len(stroke.points) |-> Scale(stroke.points[i])])

\* the handle of a box under the point (lx, ly) of the box's own frame
HandleAt(lx, ly, hw, hh, handleSize, rotationHandleDistance) ==
    LET Hit(name) == /\ lx >= HandleX(name, hw) - handleSize
                     /\ lx <= HandleX(name, hw) + handleSize
                     /\ ly >= HandleY(name, hh) - handleSize
                     /\ ly <= HandleY(name, hh) + handleSize
        rY == 0 - hh - rotationHandleDistance
        \* Math.hypot(lx, ly - rY) <= handleSize; the squares are taken of
        \* offsets that are within handleSize
        OnRotate == /\ Abs(lx) <= handleSize /\ Abs(ly - rY) <= handleSize
                /\ lx * lx + (ly - rY) * (ly - rY) <= handleSize * handleSize
        First(hits) == IF hits # {}
                       THEN HandleOrder[CHOOSE k \in hits : \A j \in hits : k <= j]
                       ELSE IF OnRotate
                       THEN "rotate"
                       ELSE NoHandle
    IN  First({k \in 1..Len(HandleOrder) : Hit(HandleOrder[k])})

getResizeHandle(point, selectedStrokes, strokes, zoom) ==
    LET pad == 60 \div zoom
        Local(b, dx, dy, rotation) ==
            HandleAt(dx * Cos(0 - rotation) - dy * Sin(0 - rotation),
                     dx * Sin(0 - rotation) + dy * Cos(0 - rotation),
                     (b.maxX - b.minX) \div 2 + pad, (b.maxY - b.minY) \div 2 + pad,
                     80 \div zoom, 300 \div zoom)
        Around(b, rotation) ==
            Local(b, point.x * 10 - (b.minX + b.maxX) \div 2,
                     point.y * 10 - (b.minY + b.maxY) \div 2, rotation)
        Of(k) == IF k = 0 THEN NoHandle
                 ELSE Around(HandleBox(strokes[k]), strokes[k].rotation)
    IN  IF Len(selectedStrokes) # 1 THEN NoHandle
        ELSE Of(FindById(strokes, selectedStrokes[1]))

(***************************************************************************)
(* Selection, marquee, drag, resize and rotate                             *)
(* (hooks/use-whiteboard-store.ts; these override the selection slice).    *)
(***************************************************************************)
MarkSelected(strokes, ids) ==
    [i \in 1..Len(strokes) |-> [strokes[i] EXCEPT !.selected = Includes(ids, strokes[i].id)]]

selectStroke(s, id, addToSelection) ==
    LET newSelected == IF addToSelection THEN Append(s.selectedStrokes, id) ELSE <<id>>
    IN  [s EXCEPT !.selectedStrokes = newSelected,
                  !.touched = TRUE, !.strokes = MarkSelected(s.strokes, newSelected)]

selectMultiple(s, ids) ==
    [s EXCEPT !.selectedStrokes = ids, !.touched = TRUE, !.strokes = MarkSelected(s.strokes, ids)]

deleteSelected(s) ==
    LET Keep(stroke) == ~Includes(s.selectedStrokes, stroke.id)
        newStrokes == SelectSeq(s.strokes, Keep)
    IN  [PushHistory(s, newStrokes) EXCEPT !.touched = TRUE, !.strokes = newStrokes,
                                           !.selectedStrokes = <<>>]

startSelection(s, point) ==
    [s EXCEPT !.isSelecting = TRUE,
              !.selectionBox = [startX |-> point.x, startY |-> point.y,
                                endX |-> point.x, endY |-> point.y]]

updateSelection(s, point) ==
    IF s.selectionBox # Null
    THEN [s EXCEPT !.selectionBox = [s.selectionBox EXCEPT !.endX = point.x, !.endY = point.y]]
    ELSE s

\* two boxes overlap
Meets(a, b) == a.minX <= b.maxX /\ a.maxX >= b.minX /\ a.minY <= b.maxY /\ a.maxY >= b.minY

\* .map((stroke) => stroke.id)
IdsOf(strokes) == [i \in 1..Len(strokes) |-> strokes[i].id]

\* the filter of finishSelection: does the stroke meet the marquee
InSelectionBox(stroke, box) ==
    LET minX == Min(box.startX, box.endX)
        maxX == Max(box.startX, box.endX)
        minY == Min(box.startY, box.endY)
        maxY == Max(box.startY, box.endY)
    IN  IF stroke.type = "text" /\ Len(stroke.points) > 0
        THEN Meets(calculateBounds(stroke), Box(minX * 10, minY * 10, maxX * 10, maxY * 10))
        ELSE IF HasEnds(stroke)
        THEN /\ Min(stroke.startPoint.x, stroke.endPoint.x) <= maxX
             /\ Max(stroke.startPoint.x, stroke.endPoint.x) >= minX
             /\ Min(stroke.startPoint.y, stroke.endPoint.y) <= maxY
             /\ Max(stroke.startPoint.y, stroke.endPoint.y) >= minY
        ELSE IF Len(stroke.points) > 0
        THEN \E i \in 1..Len(stroke.points) :
                /\ stroke.points[i].x >= minX /\ stroke.points[i].x <= maxX
                /\ stroke.points[i].y >= minY /\ stroke.points[i].y <= maxY
        ELSE FALSE

finishSelection(s) ==
    LET In(stroke) == InSelectionBox(stroke, s.selectionBox)
        Close(s1) == [s1 EXCEPT !.isSelecting = FALSE, !.selectionBox = Null]
    IN  IF s.selectionBox # Null
        THEN Close(selectMultiple(s, IdsOf(SelectSeq(s.strokes, In))))
        ELSE Close(s)

getStrokesInSelectionBox(strokes, selectionBox) ==
    LET minX == Min(selectionBox.startX, selectionBox.endX)
        maxX == Max(selectionBox.startX, selectionBox.endX)
        minY == Min(selectionBox.startY, selectionBox.endY)
        maxY == Max(selectionBox.startY, selectionBox.endY)
        Inside(point) == point.x >= minX /\ point.x <= maxX /\ point.y >= minY /\ point.y <= maxY
        In(stroke) ==
            IF stroke.type = "text" /\ Len(stroke.points) > 0
            THEN Inside(stroke.points[1])
            ELSE IF HasEnds(stroke)
            THEN /\ Min(stroke.startPoint.x, stroke.endPoint.x) <= maxX
                 /\ Max(stroke.startPoint.x, stroke.endPoint.x) >= minX
                 /\ Min(stroke.startPoint.y, stroke.endPoint.y) <= maxY
                 /\ Max(stroke.startPoint.y, stroke.endPoint.y) >= minY
            ELSE IF Len(stroke.points) > 0
            THEN \E i \in 1..Len(stroke.points) : Inside(stroke.points[i])
            ELSE FALSE
    IN  IdsOf(SelectSeq(strokes, In))

startDrag(s, point) == [s EXCEPT !.isDragging = TRUE, !.dragStart = point]

\* The coordinates are JavaScript numbers: a sum is rounded to the nearest
\* number with SignificandBits significant bits, ties to the even significand
\* (IEEE 754 has 53 of them; the numbers of the model are integers).
RECURSIVE Two(_)
Two(n) == IF n = 0 THEN 1 ELSE 2 * Two(n - 1)

RECURSIVE Spacing(_, _)
Spacing(a, q) == IF a < q * Two(SignificandBits) THEN q ELSE Spacing(a, 2 * q)

RoundTo(a, q) ==
    LET lo == (a \div q) * q
    IN  IF 2 * (a - lo) < q THEN lo
        ELSE IF 2 * (a - lo) > q THEN lo + q
        ELSE IF (lo \div q) % 2 = 0 THEN lo ELSE lo + q

Rounded(n) ==
    IF n < 0 THEN 0 - RoundTo(0 - n, Spacing(0 - n, 1)) ELSE RoundTo(n, Spacing(n, 1))

Plus(a, b) == Rounded(a + b)

\* the translation updateDrag applies to one selected stroke
Translate(stroke, deltaX, deltaY) ==
    IF stroke.type = "text" /\ Len(stroke.points) > 0
    THEN [stroke EXCEPT !.points = <<Pt(Plus(stroke.points[1].x, deltaX), Plus(stroke.points[1].y, deltaY))>>]
    ELSE IF HasEnds(stroke)
    THEN [stroke EXCEPT !.startPoint = Pt(Plus(stroke.startPoint.x, deltaX), Plus(stroke.startPoint.y, deltaY)),
                        !.endPoint = Pt(Plus(stroke.endPoint.x, deltaX), Plus(stroke.endPoint.y, deltaY))]
    ELSE IF Len(stroke.points) > 0
    THEN [stroke EXCEPT !.points = [i \in 1..Len(stroke.points) |->
                                       Pt(Plus(stroke.points[i].x, deltaX), Plus(stroke.points[i].y, deltaY))]]
    ELSE stroke

updateDragFromStart(s, point) ==
    IF s.isDragging /\ s.dragStart # Null
    THEN LET deltaX == point.x - s.dragStart.x
             deltaY == point.y - s.dragStart.y
         IN  [s EXCEPT !.touched = TRUE, !.strokes = [i \in 1..Len(s.strokes) |->
                                       IF Includes(s.selectedStrokes, s.strokes[i].id)
                                       THEN Translate(s.strokes[i], deltaX, deltaY)
                                       ELSE s.strokes[i]]]
    ELSE s

updateDrag(s, point) ==
    IF s.isDragging /\ s.dragStart # Null
    THEN LET deltaX == point.x - s.dragStart.x
             deltaY == point.y - s.dragStart.y
         IN  [s EXCEPT !.touched = TRUE, !.strokes = [i \in 1..Len(s.strokes) |->
                                       IF Includes(s.selectedStrokes, s.strokes[i].id)
                                       THEN Translate(s.strokes[i], deltaX, deltaY)
                                       ELSE s.strokes[i]],
                       !.dragStart = point]
    ELSE s

\* a finish that writes the scene into the current snapshot
finishDragInPlace(s) ==
    IF s.isDragging
    THEN [s EXCEPT !.history[s.historyIndex + 1] = s.strokes, !.isModified = TRUE,
                   !.isDragging = FALSE, !.dragStart = Null]
    ELSE s

finishDrag(s) ==
    IF s.isDragging
    THEN [PushHistory(s, s.strokes) EXCEPT !.isDragging = FALSE, !.dragStart = Null]
    ELSE s

startResize(s, handle, point) == [s EXCEPT !.resizeHandle = handle, !.dragStart = point]

\* deltaY * 0.8 (the deltas of the model are multiples of 5)
FourFifths(d) == (d * 8) \div 10

\* the font size updateResize gives a text stroke
NewFontSize(stroke, handle, deltaY) ==
    LET currentFontSize == IF stroke.fontSize # 0 THEN stroke.fontSize ELSE 16
    IN  CASE handle \in {"se", "sw", "s"} -> Max(12, currentFontSize + FourFifths(deltaY))
          [] handle \in {"ne", "nw", "n"} -> Max(12, currentFontSize - FourFifths(deltaY))
          [] OTHER -> currentFontSize

\* the start and end points updateResize gives a shape
NewEndsFromStart(stroke, handle, deltaX, deltaY) ==
    LET sx == IF handle \in {"nw", "sw", "w"} THEN deltaX ELSE 0
        sy == IF handle \in {"nw", "ne", "n"} THEN deltaY ELSE 0
        ex == IF handle \in {"ne", "se", "e"} THEN deltaX ELSE 0
        ey == IF handle \in {"sw", "se", "s"} THEN deltaY ELSE 0
    IN  [startPoint |-> Pt(stroke.startPoint.x + sx, stroke.startPoint.y + sy),
         endPoint |-> Pt(stroke.startPoint.x + ex, stroke.endPoint.y + ey)]
NewEnds(stroke, handle, deltaX, deltaY) ==
    LET sx == IF handle \in {"nw", "sw", "w"} THEN deltaX ELSE 0
        sy == IF handle \in {"nw", "ne", "n"} THEN deltaY ELSE 0
        ex == IF handle \in {"ne", "se", "e"} THEN deltaX ELSE 0
        ey == IF handle \in {"sw", "se", "s"} THEN deltaY ELSE 0
    IN  [startPoint |-> Pt(stroke.startPoint.x + sx, stroke.startPoint.y + sy),
         endPoint |-> Pt(stroke.endPoint.x + ex, stroke.endPoint.y + ey)]

updateResizeMovesPath(s, point) ==
    IF s.resizeHandle # NoHandle /\ s.dragStart # Null /\ Len(s.selectedStrokes) = 1
    THEN LET strokeId == s.selectedStrokes[1]
             k == FindById(s.strokes, strokeId)
             deltaX == point.x - s.dragStart.x
             deltaY == point.y - s.dragStart.y
         IN  IF k = 0 THEN s
             ELSE LET stroke == s.strokes[k]
                      newStrokes ==
                          IF stroke.type = "text"
                          THEN [i \in 1..Len(s.strokes) |->
                                   IF s.strokes[i].id = strokeId
                                   THEN [s.strokes[i] EXCEPT
                                            !.fontSize = NewFontSize(stroke, s.resizeHandle, deltaY)]
                                   ELSE s.strokes[i]]
                          ELSE IF HasEnds(stroke)
                          THEN [i \in 1..Len(s.strokes) |->
                                   IF s.strokes[i].id = strokeId
                                   THEN [s.strokes[i] EXCEPT
                                            !.startPoint = NewEnds(stroke, s.resizeHandle, deltaX, deltaY).startPoint,
                                            !.endPoint = NewEnds(stroke, s.resizeHandle, deltaX, deltaY).endPoint]
                                   ELSE s.strokes[i]]
                          ELSE [i \in 1..Len(s.strokes) |->
                                   IF s.strokes[i].id = strokeId
                                   THEN Translate(s.strokes[i], deltaX, deltaY)
                                   ELSE s.strokes[i]]
                  IN  [s EXCEPT !.touched = TRUE, !.strokes = newStrokes, !.dragStart = point]
    ELSE s

updateResize(s, point) ==
    IF s.resizeHandle # NoHandle /\ s.dragStart # Null /\ Len(s.selectedStrokes) = 1
    THEN LET strokeId == s.selectedStrokes[1]
             k == FindById(s.strokes, strokeId)
             deltaX == point.x - s.dragStart.x
             deltaY == point.y - s.dragStart.y
         IN  IF k = 0 THEN s
             ELSE LET stroke == s.strokes[k]
                      newStrokes ==
                          IF stroke.type = "text"
                          THEN [i \in 1..Len(s.strokes) |->
                                   IF s.strokes[i].id = strokeId
                                   THEN [s.strokes[i] EXCEPT
                                            !.fontSize = NewFontSize(stroke, s.resizeHandle, deltaY)]
                                   ELSE s.strokes[i]]
                          ELSE IF HasEnds(stroke)
                          THEN [i \in 1..Len(s.strokes) |->
                                   IF s.strokes[i].id = strokeId
                                   THEN [s.strokes[i] EXCEPT
                                            !.startPoint = NewEnds(stroke, s.resizeHandle, deltaX, deltaY).startPoint,
                                            !.endPoint = NewEnds(stroke, s.resizeHandle, deltaX, deltaY).endPoint]
                                   ELSE s.strokes[i]]
                          ELSE s.strokes
                  IN  [s EXCEPT !.touched = TRUE, !.strokes = newStrokes, !.dragStart = point]
    ELSE s

finishResize(s) ==
    IF s.resizeHandle # NoHandle
    THEN [PushHistory(s, s.strokes) EXCEPT !.resizeHandle = NoHandle, !.dragStart = Null]
    ELSE s

startRotate(s, point) == [s EXCEPT !.isRotating = TRUE, !.rotateStart = point]

\* the centre updateRotate turns about, in tenths of a pixel
BoxCentre(b) == Pt((b.minX + b.maxX) \div 2, (b.minY + b.maxY) \div 2)
RotateCentre(stroke) == BoxCentre(calculateBounds(stroke))

\* updateRotate's angles are in the model: both directions lie along an axis
RotateDefined(s, point) ==
    LET Aligned(c) == /\ AxisAligned(s.rotateStart.y * 10 - c.y, s.rotateStart.x * 10 - c.x)
                      /\ AxisAligned(point.y * 10 - c.y, point.x * 10 - c.x)
        Of(k) == IF k = 0 THEN TRUE ELSE Aligned(RotateCentre(s.strokes[k]))
    IN  IF ~(s.isRotating /\ s.rotateStart # Null /\ Len(s.selectedStrokes) = 1) THEN TRUE
        ELSE Of(FindById(s.strokes, s.selectedStrokes[1]))

updateRotateAbsolute(s, point) ==
    IF s.isRotating /\ s.rotateStart # Null /\ Len(s.selectedStrokes) = 1
    THEN LET strokeId == s.selectedStrokes[1]
             \* currentAngle - startAngle about the centre c
             Angle(c) == Atan2(point.y * 10 - c.y, point.x * 10 - c.x)
                         - Atan2(s.rotateStart.y * 10 - c.y, s.rotateStart.x * 10 - c.x)
             By(rotation) ==
                 [s EXCEPT !.touched = TRUE, !.strokes = [i \in 1..Len(s.strokes) |->
                                               IF s.strokes[i].id = strokeId
                                               THEN [s.strokes[i] EXCEPT !.rotation = rotation]
                                               ELSE s.strokes[i]],
                           !.rotateStart = point]
             Of(k) == IF k = 0 THEN s ELSE By(Angle(RotateCentre(s.strokes[k])))
         IN  Of(FindById(s.strokes, strokeId))
    ELSE s

updateRotate(s, point) ==
    IF s.isRotating /\ s.rotateStart # Null /\ Len(s.selectedStrokes) = 1
    THEN LET strokeId == s.selectedStrokes[1]
             \* currentAngle - startAngle about the centre c
             Angle(c) == Atan2(point.y * 10 - c.y, point.x * 10 - c.x)
                         - Atan2(s.rotateStart.y * 10 - c.y, s.rotateStart.x * 10 - c.x)
             By(rotation) ==
                 [s EXCEPT !.touched = TRUE, !.strokes = [i \in 1..Len(s.strokes) |->
                                               IF s.strokes[i].id = strokeId
                                               THEN [s.strokes[i] EXCEPT !.rotation = @ + rotation]
                                               ELSE s.strokes[i]],
                           !.rotateStart = point]
             Of(k) == IF k = 0 THEN s ELSE By(Angle(RotateCentre(s.strokes[k])))
         IN  Of(FindById(s.strokes, strokeId))
    ELSE s

finishRotate(s) ==
    IF s.isRotating
    THEN [PushHistory(s, s.strokes) EXCEPT !.isRotating = FALSE, !.rotateStart = Null]
    ELSE s

(***************************************************************************)
(* StrokeUtils: the stroke transformations of cursor-manager.ts.           *)
(***************************************************************************)
applyRotation(stroke, rotation) ==
    [stroke EXCEPT !.rotation = stroke.rotation + rotation]

applyTranslationClamped(stroke, deltaX, deltaY) ==
    LET To(p) == Pt(Max(0, Plus(p.x, deltaX)), Max(0, Plus(p.y, deltaY)))
    IN  IF stroke.type = "text" /\ Len(stroke.points) > 0
        THEN [stroke EXCEPT !.points = <<To(stroke.points[1])>>]
        ELSE IF HasEnds(stroke)
        THEN [stroke EXCEPT !.startPoint = To(stroke.startPoint), !.endPoint = To(stroke.endPoint)]
        ELSE IF Len(stroke.points) > 0
        THEN [stroke EXCEPT !.points = [i \in 1..Len(stroke.points) |-> To(stroke.points[i])]]
        ELSE stroke
applyTranslation(stroke, deltaX, deltaY) ==
    LET To(p) == Pt(Plus(p.x, deltaX), Plus(p.y, deltaY))
    IN  IF stroke.type = "text" /\ Len(stroke.points) > 0
        THEN [stroke EXCEPT !.points = <<To(stroke.points[1])>>]
        ELSE IF HasEnds(stroke)
        THEN [stroke EXCEPT !.startPoint = To(stroke.startPoint), !.endPoint = To(stroke.endPoint)]
        ELSE IF Len(stroke.points) > 0
        THEN [stroke EXCEPT !.points = [i \in 1..Len(stroke.points) |-> To(stroke.points[i])]]
        ELSE stroke

applyResize(stroke, handle, deltaX, deltaY) ==
    IF stroke.type = "text"
    THEN LET currentFontSize == IF stroke.fontSize # 0 THEN stroke.fontSize ELSE 16
         IN  [stroke EXCEPT !.fontSize =
                 CASE handle \in {"se", "sw", "s"} -> Max(12, currentFontSize + FourFifths(deltaY))
                   [] handle \in {"ne", "nw", "n"} -> Max(12, currentFontSize - FourFifths(deltaY))
                   [] OTHER -> currentFontSize]
    ELSE IF HasEnds(stroke)
    THEN LET sx == CASE handle \in {"nw", "sw", "w"} -> stroke.startPoint.x + deltaX
                     [] OTHER -> stroke.startPoint.x
             sy == CASE handle \in {"nw", "ne", "n"} -> stroke.startPoint.y + deltaY
                     [] OTHER -> stroke.startPoint.y
             ex == CASE handle \in {"ne", "se", "e"} -> stroke.endPoint.x + deltaX
                     [] OTHER -> stroke.endPoint.x
             ey == CASE handle \in {"sw", "se", "s"} -> stroke.endPoint.y + deltaY
                     [] OTHER -> stroke.endPoint.y
         IN  [stroke EXCEPT !.startPoint = Pt(sx, sy), !.endPoint = Pt(ex, ey)]
    ELSE stroke

(***************************************************************************)
(* Text editing.  editingText is Null or [id, x, y, text, mathMode].       *)
(***************************************************************************)
startTextEdit(s, point, t) ==
    [s EXCEPT !.editingText = [id |-> t, x |-> point.x, y |-> point.y,
                               text |-> <<>>, mathMode |-> FALSE]]

\* the live update that pushes a snapshot on every keystroke
updateTextPushing(s, text) ==
    IF s.editingText # Null
    THEN LET s1 == [s EXCEPT !.editingText = [s.editingText EXCEPT !.text = text]]
             k == FindById(s.strokes, s.editingText.id)
         IN  IF k # 0 /\ s.strokes[k].type = "text"
             THEN LET newStrokes == [i \in 1..Len(s.strokes) |->
                                        IF s.strokes[i].id = s.strokes[k].id
                                        THEN [s.strokes[i] EXCEPT !.text = text]
                                        ELSE s.strokes[i]]
                  IN  [PushHistory(s1, newStrokes) EXCEPT !.touched = TRUE,
                                                          !.strokes = newStrokes]
             ELSE IF Len(text) > 0
             THEN [s1 EXCEPT !.touched = TRUE, !.strokes = Append(s.strokes,
                                 TextStroke(s.editingText.id, s.editingText.x, s.editingText.y,
                                            s.currentColor, s.currentStrokeWidth, text,
                                            s.editingText.mathMode)),
                             !.isModified = TRUE]
             ELSE s1
    ELSE s

updateText(s, text) ==
    IF s.editingText # Null
    THEN LET s1 == [s EXCEPT !.editingText = [s.editingText EXCEPT !.text = text]]
             k == FindById(s.strokes, s.editingText.id)
         IN  IF k # 0 /\ s.strokes[k].type = "text"
             THEN [s1 EXCEPT !.touched = TRUE, !.strokes = [i \in 1..Len(s.strokes) |->
                                             IF s.strokes[i].id = s.strokes[k].id
                                             THEN [s.strokes[i] EXCEPT !.text = text]
                                             ELSE s.strokes[i]],
                             !.isModified = TRUE]
             ELSE IF Len(text) > 0
             THEN [s1 EXCEPT !.touched = TRUE, !.strokes = Append(s.strokes,
                                 TextStroke(s.editingText.id, s.editingText.x, s.editingText.y,
                                            s.currentColor, s.currentStrokeWidth, text,
                                            s.editingText.mathMode)),
                             !.isModified = TRUE]
             ELSE s1
    ELSE s

\* a commit that always adds the edited text as a new stroke
finishTextEditAppending(s) ==
    LET s1 ==
          IF s.editingText # Null /\ TrimNonEmpty(s.editingText.text)
          THEN [addStroke(s, TextStroke(s.editingText.id, s.editingText.x, s.editingText.y,
                                        s.currentColor, s.currentStrokeWidth,
                                        s.editingText.text, s.editingText.mathMode))
                   EXCEPT !.currentTool = "select"]
          ELSE s
    IN  [s1 EXCEPT !.editingText = Null]

finishTextEdit(s) ==
    LET s1 ==
          IF s.editingText # Null /\ TrimNonEmpty(s.editingText.text)
          THEN LET k == FindById(s.strokes, s.editingText.id)
               IN  IF k # 0 /\ s.strokes[k].type = "text"
                   THEN LET existingStroke == s.strokes[k]
                            preservedFontSize == existingStroke.fontSize
                            preservedColor == existingStroke.color
                            newStrokes == [i \in 1..Len(s.strokes) |->
                                IF s.strokes[i].id = s.editingText.id
                                THEN [s.strokes[i] EXCEPT !.text = s.editingText.text,
                                                          !.fontSize = preservedFontSize,
                                                          !.color = preservedColor,
                                                          !.mathMode = s.editingText.mathMode]
                                ELSE s.strokes[i]]
                        IN  [PushHistory(s, newStrokes) EXCEPT !.touched = TRUE, !.strokes = newStrokes,
                                                               !.currentTool = "select"]
                   ELSE [addStroke(s, TextStroke(s.editingText.id, s.editingText.x, s.editingText.y,
                                                 s.currentColor, s.currentStrokeWidth,
                                                 s.editingText.text, s.editingText.mathMode))
                            EXCEPT !.currentTool = "select"]
          ELSE s
    IN  [s1 EXCEPT !.editingText = Null]

setEditingText(s, editing) == [s EXCEPT !.editingText = editing]

(***************************************************************************)
(* Eraser.                                                                 *)
(***************************************************************************)
\* the filter that keeps a pen stroke with a sample point at the radius
ErasePredicateOpen(stroke, x, y, radius) ==
    IF stroke.type = "text"
    THEN LET textPoint == stroke.points[1]
         IN  (textPoint.x - x) * (textPoint.x - x) + (textPoint.y - y) * (textPoint.y - y)
                > radius * radius
    ELSE IF stroke.type \in ShapeTools
    THEN IF ~HasEnds(stroke) THEN TRUE
         ELSE ~(/\ x >= Min(stroke.startPoint.x, stroke.endPoint.x) - radius
                /\ x <= Max(stroke.startPoint.x, stroke.endPoint.x) + radius
                /\ y >= Min(stroke.startPoint.y, stroke.endPoint.y) - radius
                /\ y <= Max(stroke.startPoint.y, stroke.endPoint.y) + radius)
    ELSE ~(\E i \in 1..Len(stroke.points) :
              (stroke.points[i].x - x) * (stroke.points[i].x - x)
                + (stroke.points[i].y - y) * (stroke.points[i].y - y) < radius * radius)

\* the filter of eraseAtPoint: TRUE keeps the stroke
ErasePredicate(stroke, x, y, radius) ==
    IF stroke.type = "text"
    THEN LET textPoint == stroke.points[1]
         IN  (textPoint.x - x) * (textPoint.x - x) + (textPoint.y - y) * (textPoint.y - y)
                > radius * radius
    ELSE IF stroke.type \in ShapeTools
    THEN IF ~HasEnds(stroke) THEN TRUE
         ELSE ~(/\ x >= Min(stroke.startPoint.x, stroke.endPoint.x) - radius
                /\ x <= Max(stroke.startPoint.x, stroke.endPoint.x) + radius
                /\ y >= Min(stroke.startPoint.y, stroke.endPoint.y) - radius
                /\ y <= Max(stroke.startPoint.y, stroke.endPoint.y) + radius)
    ELSE ~(\E i \in 1..Len(stroke.points) :
              (stroke.points[i].x - x) * (stroke.points[i].x - x)
                + (stroke.points[i].y - y) * (stroke.points[i].y - y) <= radius * radius)

\* the erase that pushes a snapshot even when it removes nothing
eraseAtPointAlways(s, x, y, radius) ==
    LET Keep(stroke) == ErasePredicate(stroke, x, y, radius)
        newStrokes == SelectSeq(s.strokes, Keep)
    IN  [PushHistory(s, newStrokes) EXCEPT !.touched = TRUE, !.strokes = newStrokes]

eraseAtPoint(s, x, y, radius) ==
    LET Keep(stroke) == ErasePredicate(stroke, x, y, radius)
        newStrokes == SelectSeq(s.strokes, Keep)
    IN  IF Len(newStrokes) # Len(s.strokes)
        THEN [PushHistory(s, newStrokes) EXCEPT !.touched = TRUE, !.strokes = newStrokes]
        ELSE s

(***************************************************************************)
(* Documents.  A document is [id, name, strokes, createdAt, updatedAt,     *)
(* thumbnail]; the thumbnail is "png" or "none" (generateThumbnail returns *)
(* null for an empty scene).                                               *)
(***************************************************************************)
generateThumbnail(s) == IF Len(s.strokes) = 0 THEN "none" ELSE "png"

newDocument(s) ==
    [s EXCEPT !.touched = TRUE, !.strokes = <<>>, !.currentStroke = Null, !.history = <<<<>>>>,
              !.historyIndex = 0, !.editingText = Null, !.isDrawingShape = FALSE,
              !.shapeStartPoint = Null, !.selectedStrokes = <<>>, !.selectionBox = Null,
              !.isSelecting = FALSE, !.isDragging = FALSE, !.dragStart = Null,
              !.resizeHandle = NoHandle, !.currentDocument = Null, !.isModified = FALSE,
              !.zoom = 1, !.panX = 0, !.panY = 0]

\* name "" stands for an omitted name; the default name carries the date
documentName(name) == IF name = "" THEN "Whiteboard" ELSE name

saveDocument(s, name, t) ==
    IF s.currentDocument # Null
    THEN LET updatedDocument == [s.currentDocument EXCEPT !.name = documentName(name),
                                                          !.strokes = s.strokes,
                                                          !.updatedAt = t,
                                                          !.thumbnail = generateThumbnail(s)]
         IN  [s EXCEPT !.currentDocument = updatedDocument,
                       !.savedDocuments = [i \in 1..Len(s.savedDocuments) |->
                                              IF s.savedDocuments[i].id = s.currentDocument.id
                                              THEN updatedDocument
                                              ELSE s.savedDocuments[i]],
                       !.isModified = FALSE]
    ELSE LET doc == [id |-> t, name |-> documentName(name), strokes |-> s.strokes,
                     createdAt |-> t, updatedAt |-> t, thumbnail |-> generateThumbnail(s)]
         IN  [s EXCEPT !.currentDocument = doc,
                       !.savedDocuments = Append(s.savedDocuments, doc),
                       !.isModified = FALSE]

loadDocument(s, document) ==
    [s EXCEPT !.touched = TRUE, !.strokes = document.strokes, !.currentStroke = Null,
              !.history = <<document.strokes>>,
              !.historyIndex = 0, !.editingText = Null, !.isDrawingShape = FALSE,
              !.shapeStartPoint = Null, !.selectedStrokes = <<>>, !.selectionBox = Null,
              !.isSelecting = FALSE, !.isDragging = FALSE, !.dragStart = Null,
              !.resizeHandle = NoHandle, !.currentDocument = document, !.isModified = FALSE,
              !.zoom = 1, !.panX = 0, !.panY = 0]

deleteDocument(s, id) ==
    LET Other(doc) == doc.id # id
        newCurrentDocument == IF s.currentDocument # Null /\ s.currentDocument.id = id
                              THEN Null ELSE s.currentDocument
        s1 == [s EXCEPT !.savedDocuments = SelectSeq(s.savedDocuments, Other),
                        !.currentDocument = newCurrentDocument]
    IN  IF newCurrentDocument = Null THEN newDocument(s1) ELSE s1

duplicateDocument(s, id, t) ==
    IF \E i \in 1..Len(s.savedDocuments) : s.savedDocuments[i].id = id
    THEN LET k == CHOOSE i \in 1..Len(s.savedDocuments) :
                     /\ s.savedDocuments[i].id = id
                     /\ \A j \in 1..(i - 1) : s.savedDocuments[j].id # id
             originalDoc == s.savedDocuments[k]
         IN  [s EXCEPT !.savedDocuments = Append(s.savedDocuments,
                          [originalDoc EXCEPT !.id = t, !.name = "copy",
                                              !.createdAt = t, !.updatedAt = t])]
    ELSE s

clear(s) ==
    [PushHistory(s, <<>>) EXCEPT
        !.touched = TRUE, !.strokes = <<>>, !.currentStroke = Null, !.editingText = Null,
        !.isDrawingShape = FALSE, !.shapeStartPoint = Null, !.selectedStrokes = <<>>,
        !.selectionBox = Null, !.isSelecting = FALSE, !.isDragging = FALSE,
        !.dragStart = Null, !.resizeHandle = NoHandle, !.isRotating = FALSE,
        !.rotateStart = Null]

(***************************************************************************)
(* The Whiteboard component (components/whiteboard.tsx).  ui holds its     *)
(* useState values and refs.  A handler is an operator from the store s,   *)
(* the local state u, the event and the clock t to the pair [s, u] it      *)
(* leaves; what the closure captured is read from s and u, what a store    *)
(* operation reads through get() is read from the running store.           *)
(***************************************************************************)
Out(s, u) == [s |-> s, u |-> u]

\* the client position of a canvas point (the inverse of screenToCanvas)
canvasToScreen(point, s) == Pt(point.x * s.zoom + s.panX, point.y * s.zoom + s.panY)

\* String.prototype.slice(a, b) and slice(a)
Slice(text, a, b) == SubSeq(text, Min(a, Len(text)) + 1, Min(b, Len(text)))
SliceFrom(text, a) == SubSeq(text, Min(a, Len(text)) + 1, Len(text))

getLines(text) == Split(text)

RECURSIVE LineStart(_, _)
\* the index at which line li (0-based) of lines starts
LineStart(lines, li) == IF li = 0 THEN 0 ELSE LineStart(lines, li - 1) + Len(lines[li]) + 1

indexToLineCol(text, index) ==
    LET In(lines) ==
            LET Fits(li) == index <= LineStart(lines, li) + Len(lines[li + 1])
                At(fits) == IF fits # {}
                            THEN LET li == CHOOSE l \in fits : \A m \in fits : l <= m
                                 IN  [line |-> li, col |-> index - LineStart(lines, li)]
                            ELSE [line |-> Len(lines) - 1, col |-> Len(lines[Len(lines)])]
            IN  At({li \in 0..(Len(lines) - 1) : Fits(li)})
    IN  In(getLines(text))

lineColToIndex(text, line, col) ==
    LET In(lines) == Min(LineStart(lines, Min(line, Len(lines))) + col, Len(text))
    IN  In(getLines(text))

\* the stroke an edit e stands for, Null if none or no edit (activeEditingStroke)
activeEditingStroke(strokes, e) ==
    LET Of(k) == IF k # 0 THEN strokes[k] ELSE Null
    IN  IF e # Null THEN Of(FindById(strokes, e.id)) ELSE Null

\* the font size handleMouseDown measures the text of the edit e with
EditFontSize(s, e) ==
    LET Of(stroke) == IF stroke = Null THEN Max(16, s.currentStrokeWidth * 4)
                      ELSE IF stroke.fontSize # 0 THEN stroke.fontSize
                      ELSE Max(16, s.currentStrokeWidth * 4)
    IN  Of(activeEditingStroke(s.strokes, e))

\* is the click inside the measured box of the edit e (tenths of a pixel)
InsideLiveText(s, e, point) ==
    LET Measured(fontSize, lines) ==
            InBox(Scale(point),
                  Box(e.x * 10, e.y * 10,
                      e.x * 10 + Max(200, SeqMax([i \in 1..Len(lines) |->
                                                     measureText(lines[i], fontSize)])),
                      e.y * 10 + Max(fontSize * 12, Len(lines) * fontSize * 12)))
    IN  Measured(EditFontSize(s, e), getLines(e.text))

\* the caret index a click inside the box of the edit e selects
ClickCaret(s, e, point) ==
    LET relY == point.y * 10 - e.y * 10
        relX == Max(0, point.x * 10 - e.x * 10)
        Column(targetLine, fontSize) ==
            LET Dist(c) == Abs(measureText(SubSeq(targetLine, 1, c), fontSize) - relX)
            IN  CHOOSE c \in 0..Len(targetLine) :
                   /\ \A d \in 0..Len(targetLine) : Dist(c) <= Dist(d)
                   /\ \A d \in 0..(c - 1) : Dist(d) > Dist(c)
        OnLine(line, lines, fontSize) ==
            lineColToIndex(e.text, line, Column(lines[line + 1], fontSize))
        Measured(fontSize, lines) ==
            OnLine(Min(relY \div (fontSize * 12), Max(0, Len(lines) - 1)), lines, fontSize)
    IN  Measured(EditFontSize(s, e), getLines(e.text))

\* handleMouseDown after the text branch: the tool and selection are the closure's
MouseDownTool(s0, s, u, point, mod, t) ==
    LET Select(handle, clicked) ==
            IF handle # NoHandle
            THEN IF handle = "rotate"
                 THEN Out(startRotate(s, point), u)
                 ELSE Out(startResize(s, handle, point), u)
            ELSE IF clicked # 0
            THEN IF ~Includes(s0.selectedStrokes, s0.strokes[clicked].id)
                 THEN Out(startDrag(selectStroke(s, s0.strokes[clicked].id, mod = "shift"),
                                    point), u)
                 ELSE Out(startDrag(s, point), u)
            ELSE IF mod # "shift"
            THEN Out(startSelection(clearSelection(s), point), u)
            ELSE Out(startSelection(s, point), u)
    IN  IF s0.currentTool = "pan" \/ mod = "pan"
        THEN Out(s, [u EXCEPT !.isPanning = TRUE, !.lastPanPoint = canvasToScreen(point, s0)])
        ELSE IF s0.currentTool = "select"
        THEN Select(getResizeHandle(point, s0.selectedStrokes, s0.strokes, s0.zoom),
                    getStrokeAtPoint(point, s0.strokes))
        ELSE IF s0.currentTool = "pen"
        THEN Out(setCurrentStroke(s, PenStroke(t, point, s0.currentColor, s0.currentStrokeWidth)),
                 [u EXCEPT !.isDrawing = TRUE, !.lastPoint = point, !.lastDrawTime = t])
        ELSE IF s0.currentTool = "eraser"
        THEN Out(eraseAtPoint(s, point.x, point.y, s0.currentStrokeWidth * 2),
                 [u EXCEPT !.isDrawing = TRUE, !.lastPoint = point])
        ELSE IF s0.currentTool \in ShapeTools
        THEN Out(startShape(s, point, t), u)
        ELSE IF s0.currentTool = "text"
        THEN Out(startTextEdit(s, point, t), u)
        ELSE Out(s, u)

\* the store after the text branch of handleMouseDown for a click outside
\* the box: a non-blank text is committed, a blank one dropped
TextBranch(s, u) ==
    IF u.editingText = Null THEN s
    ELSE IF TrimNonEmpty(u.editingText.text) THEN finishTextEdit(s)
    ELSE setEditingText(s, Null)

\* handleMouseDown is memoised without editingText among its dependencies:
\* the edit it sees is u.editingText, the one of the render that last
\* rebuilt it (see Rendered below); the store operations act on the store's
handleMouseDown(s, u, point, mod, t) ==
    LET Text(inside) ==
            IF inside
            THEN Out(s, [u EXCEPT !.caretIndex = ClickCaret(s, u.editingText, point)])
            ELSE MouseDownTool(s, TextBranch(s, u), u, point, mod, t)
    IN  Text(IF u.editingText # Null THEN InsideLiveText(s, u.editingText, point) ELSE FALSE)

\* the pen throttle: a tick of the model's clock is TickMs milliseconds
TickMs == 11

handleMouseMove(s, u, point, t) ==
    IF ~u.isPanning /\ ~s.isDragging /\ ~s.isSelecting
       /\ s.currentTool = "select" /\ s.editingText = Null /\ s.isRotating
    THEN Out(updateRotate(s, point), u)
    ELSE IF u.isPanning /\ u.lastPanPoint # Null
    THEN LET screen == canvasToScreen(point, s)
         IN  Out(setPan(s, s.panX + (screen.x - u.lastPanPoint.x),
                           s.panY + (screen.y - u.lastPanPoint.y)),
                 [u EXCEPT !.lastPanPoint = screen])
    ELSE IF s.resizeHandle # NoHandle
    THEN IF s.resizeHandle = "rotate" THEN Out(updateRotate(s, point), u)
         ELSE Out(updateResize(s, point), u)
    ELSE IF s.isDragging /\ s.currentTool = "select"
    THEN Out(updateDrag(s, point), u)
    ELSE IF s.isSelecting /\ s.currentTool = "select"
    THEN Out(updateSelection(s, point), u)
    ELSE
    LET Dist2(a, b) == (a.x - b.x) * (a.x - b.x) + (a.y - b.y) * (a.y - b.y)
        pen == u.isDrawing /\ s.currentTool = "pen" /\ u.lastPoint # Null /\ s.currentStroke # Null
        eraser == u.isDrawing /\ s.currentTool = "eraser" /\ u.lastPoint # Null
        Pen(r) ==
            IF pen /\ Dist2(point, u.lastPoint) > 1 /\ (t - u.lastDrawTime) * TickMs > 10
            THEN Out(setCurrentStroke(r.s, [s.currentStroke EXCEPT !.points = Append(@, point)]),
                     [r.u EXCEPT !.lastPoint = point, !.lastDrawTime = t])
            ELSE r
        Eraser(r) ==
            IF eraser /\ Dist2(point, u.lastPoint) > 25
            THEN Out(eraseAtPoint(r.s, point.x, point.y, s.currentStrokeWidth * 2),
                     [r.u EXCEPT !.lastPoint = point])
            ELSE r
        Shape(r) ==
            IF s.isDrawingShape /\ s.currentTool \in ShapeTools
            THEN Out(updateShape(r.s, point), r.u)
            ELSE r
    IN  Shape(Eraser(Pen(Out(s, u))))

handleMouseUp(s, u) ==
    LET u1 == IF u.isPanning THEN [u EXCEPT !.isPanning = FALSE, !.lastPanPoint = Null] ELSE u
        u2 == IF u.isDrawing THEN [u1 EXCEPT !.isDrawing = FALSE, !.lastPoint = Null] ELSE u1
        Resize(x) == IF s.resizeHandle # NoHandle
                     THEN IF s.resizeHandle = "rotate" THEN finishRotate(x) ELSE finishResize(x)
                     ELSE x
        Rotate(x) == IF s.isRotating THEN finishRotate(x) ELSE x
        Drag(x) == IF s.isDragging THEN finishDrag(x) ELSE x
        Selection(x) == IF s.isSelecting THEN finishSelection(x) ELSE x
        Pen(x) == IF u.isDrawing /\ s.currentTool = "pen" /\ s.currentStroke # Null
                  THEN finishStroke(x) ELSE x
        Shape(x) == IF s.isDrawingShape /\ s.currentTool \in ShapeTools THEN finishShape(x) ELSE x
    IN  Out(Shape(Pen(Selection(Drag(Rotate(Resize(s)))))), u2)

handleDoubleClick(s, u, point) ==
    LET Edit(stroke) ==
            Out(selectStroke(setEditingText(s, [id |-> stroke.id, x |-> stroke.points[1].x,
                                                y |-> stroke.points[1].y, text |-> stroke.text,
                                                mathMode |-> stroke.mathMode]),
                             stroke.id, FALSE),
                [u EXCEPT !.hasInitializedTextEdit = FALSE])
        At(clicked) == IF clicked = 0 THEN Out(s, u)
                       ELSE IF s.strokes[clicked].type = "text" THEN Edit(s.strokes[clicked])
                       ELSE Out(s, u)
    IN  IF s.currentTool # "select" THEN Out(s, u)
        ELSE At(getStrokeAtPoint(point, s.strokes))

\* the keydown listener installed while a text edit is live
onKeyDown(s, u, key) ==
    LET text == s.editingText.text
        idx == u.caretIndex
    IN  IF key = "Escape" THEN Out(setEditingText(s, Null), u)
        ELSE IF key = "Enter"
        THEN Out(updateText(s, Slice(text, 0, idx) \o <<Newline>> \o SliceFrom(text, idx)),
                 [u EXCEPT !.caretIndex = idx + 1])
        ELSE IF key = "Backspace"
        THEN IF idx > 0
             THEN Out(updateText(s, Slice(text, 0, idx - 1) \o SliceFrom(text, idx)),
                      [u EXCEPT !.caretIndex = idx - 1])
             ELSE Out(s, u)
        ELSE IF key = "Delete"
        THEN IF idx < Len(text)
             THEN Out(updateText(s, Slice(text, 0, idx) \o SliceFrom(text, idx + 1)), u)
             ELSE Out(s, u)
        ELSE IF key = "ArrowLeft"
        THEN Out(s, [u EXCEPT !.caretIndex = Max(0, idx - 1), !.desiredColumn = NoColumn])
        ELSE IF key = "ArrowRight"
        THEN Out(s, [u EXCEPT !.caretIndex = Min(Len(text), idx + 1), !.desiredColumn = NoColumn])
        ELSE IF key \in {"ArrowUp", "ArrowDown"}
        THEN LET To(targetLine, desiredCol, lines) ==
                     Out(s, [u EXCEPT !.desiredColumn = desiredCol,
                                      !.caretIndex =
                                          lineColToIndex(text, targetLine,
                                              Min(desiredCol, Len(lines[targetLine + 1])))])
                 From(lc, lines) ==
                     To(IF key = "ArrowUp" THEN Max(0, lc.line - 1)
                        ELSE Min(Len(lines) - 1, lc.line + 1),
                        IF u.desiredColumn # NoColumn THEN u.desiredColumn ELSE lc.col,
                        lines)
             IN  From(indexToLineCol(text, idx), getLines(text))
        ELSE Out(updateText(s, Slice(text, 0, idx) \o <<key>> \o SliceFrom(text, idx)),
                 [u EXCEPT !.caretIndex = idx + 1, !.desiredColumn = NoColumn])

\* the tool a key selects in the second switch of handleKeyDown, "" if none
ToolOfKey(key) ==
    CASE key \in {"v", "s"} -> "select"
      [] key = "p" -> "pen"
      [] key = "e" -> "eraser"
      [] key = "h" -> "pan"
      [] key = "r" -> "rectangle"
      [] key = "o" -> "ellipse"
      [] key = "l" -> "line"
      [] key = "t" -> "text"
      [] key = " " -> "pan"
      [] OTHER -> ""

\* the global keydown listener; it is called only while no text edit is live
handleKeyDown(s, e, t) ==
    IF e.key \in {"Delete", "Backspace"}
    THEN IF Len(s.selectedStrokes) > 0 THEN deleteSelected(s) ELSE s
    ELSE LET s1 == IF ~e.ctrl THEN s
                   ELSE IF e.key = "s"
                   THEN IF s.currentDocument # Null THEN saveDocument(s, "", t)
                        ELSE saveDocument(s, "Whiteboard", t)
                   ELSE IF e.key = "n" THEN newDocument(s)
                   ELSE IF e.key = "z"
                   THEN IF e.shift THEN (IF canRedo(s) THEN redo(s) ELSE s)
                        ELSE (IF canUndo(s) THEN undo(s) ELSE s)
                   ELSE IF e.key = "y" THEN (IF canRedo(s) THEN redo(s) ELSE s)
                   ELSE IF e.key = "a"
                   THEN setCurrentTool(
                            selectMultiple(s, [i \in 1..Len(s.strokes) |-> s.strokes[i].id]),
                            "select")
                   ELSE s
             Tool(x) == IF ToolOfKey(e.key) # "" THEN setCurrentTool(x, ToolOfKey(e.key)) ELSE x
         IN  Tool(s1)

handleKeyUp(s, key) == IF key = " " THEN setCurrentTool(s, "pen") ELSE s

\* the Math mode button shown while a text edit is live
toggleMathMode(s) ==
    setEditingText(s, [s.editingText EXCEPT !.mathMode = ~s.editingText.mathMode])

\* What the render after a handler does to the component: handleMouseDown is
\* rebuilt, and so sees the current editingText, when one of its dependencies
\* changed (the tool, colour, width, view, or the identity of the strokes or
\* selectedStrokes array); the caret effect runs on editingText.
Rendered(s0, s1, u) ==
    LET rebuilt == \/ s1.touched
                   \/ s1.currentTool # s0.currentTool
                   \/ s1.currentColor # s0.currentColor
                   \/ s1.currentStrokeWidth # s0.currentStrokeWidth
                   \/ s1.zoom # s0.zoom \/ s1.panX # s0.panX \/ s1.panY # s0.panY
        u1 == IF rebuilt THEN [u EXCEPT !.editingText = s1.editingText] ELSE u
    IN  IF s1.editingText # Null
        THEN IF ~u1.hasInitializedTextEdit
             THEN [u1 EXCEPT !.caretIndex = Len(s1.editingText.text),
                             !.desiredColumn = NoColumn,
                             !.hasInitializedTextEdit = TRUE]
             ELSE u1
        ELSE [u1 EXCEPT !.hasInitializedTextEdit = FALSE, !.desiredColumn = NoColumn]

(***************************************************************************)
(* The state machine.  st is the store, ui the component's local state,    *)
(* now the clock Date.now() reads, obs what the properties observe of the  *)
(* run.  One action is one event delivered to the component or one call of *)
(* the toolbar or the file manager into the store.                         *)
(***************************************************************************)
Points == {Pt(0, 0), Pt(40, 0), Pt(0, 0 - 40)}
ZoomLevels == {1, 2}
Modifiers == {"none", "shift", "pan"}
EditKeys == {"Escape", "Enter", "Backspace", "Delete", "ArrowLeft", "ArrowRight", "ArrowUp", "ArrowDown"}
TextKeys == EditKeys \cup CharKeys
Key(k, ctrl, shift) == [key |-> k, ctrl |-> ctrl, shift |-> shift]
KeyEvents ==
    {Key(k, FALSE, FALSE) : k \in {"Delete", "v", "s", "p", "e", "h", "r", "o", "l", "t", " "}}
    \cup {Key(k, TRUE, FALSE) : k \in {"s", "n", "z", "y", "a"}}
    \cup {Key("z", TRUE, TRUE)}

InitStore ==
    [currentTool |-> "pen", currentColor |-> "#2563eb", currentStrokeWidth |-> 4,
     zoom |-> 1, panX |-> 0, panY |-> 0,
     strokes |-> <<>>, currentStroke |-> Null, isDrawingShape |-> FALSE, shapeStartPoint |-> Null,
     selectedStrokes |-> <<>>, selectionBox |-> Null, isSelecting |-> FALSE,
     isDragging |-> FALSE, dragStart |-> Null, resizeHandle |-> NoHandle,
     isRotating |-> FALSE, rotateStart |-> Null,
     editingText |-> Null,
     history |-> <<<<>>>>, historyIndex |-> 0,
     currentDocument |-> Null, savedDocuments |-> <<>>, isModified |-> FALSE,
     touched |-> FALSE]

InitUi ==
    [isDrawing |-> FALSE, isPanning |-> FALSE, lastPoint |-> Null, lastPanPoint |-> Null,
     lastDrawTime |-> 0, caretIndex |-> 0, desiredColumn |-> NoColumn,
     hasInitializedTextEdit |-> FALSE, editingText |-> Null]

\* the part of the state space the model explores
InCanvas(p) == IF p = Null THEN TRUE ELSE Abs(p.x) <= MaxCoord /\ Abs(p.y) <= MaxCoord
StrokeWithin(stroke) ==
    /\ Len(stroke.points) <= MaxPoints
    /\ \A i \in 1..Len(stroke.points) : InCanvas(stroke.points[i])
    /\ InCanvas(stroke.startPoint) /\ InCanvas(stroke.endPoint)
    /\ Len(stroke.text) <= MaxText
    /\ stroke.fontSize <= MaxFontSize
    /\ Abs(stroke.rotation) <= MaxRotation
Within(s) ==
    /\ Len(s.history) <= MaxHistory
    /\ Len(s.strokes) <= MaxStrokes
    /\ \A i \in 1..Len(s.strokes) : StrokeWithin(s.strokes[i])
    /\ IF s.currentStroke # Null THEN StrokeWithin(s.currentStroke) ELSE TRUE
    /\ IF s.editingText # Null THEN Len(s.editingText.text) <= MaxText ELSE TRUE
    /\ Len(s.savedDocuments) <= MaxDocs
    /\ s.panX \in {0, MaxPan} /\ s.panY = 0 /\ (s.zoom = 1 \/ s.panX = 0)

(***************************************************************************)
(* Events.  An event is [type, point, arg]; Handle is the handler or the   *)
(* store call the event reaches, Enabled says when the event can occur.    *)
(***************************************************************************)
Ev(type, point, arg) == [type |-> type, point |-> point, arg |-> arg]

\* the rotate branches of handleMouseMove
MoveRotates(s, u) ==
    IF ~u.isPanning /\ ~s.isDragging /\ ~s.isSelecting
       /\ s.currentTool = "select" /\ s.editingText = Null /\ s.isRotating
    THEN TRUE
    ELSE ~(u.isPanning /\ u.lastPanPoint # Null) /\ s.resizeHandle = "rotate"

Enabled(s, u, e) ==
    CASE e.type = "TextKeyDown" -> s.editingText # Null
      [] e.type = "KeyDown" -> s.editingText = Null
      [] e.type = "ToggleMathMode" -> s.editingText # Null
      [] e.type = "Clear" -> Len(s.strokes) > 0
      [] e.type = "DeleteSelected" -> Len(s.selectedStrokes) > 0
      [] e.type = "MouseMove" -> IF MoveRotates(s, u) THEN RotateDefined(s, e.point) ELSE TRUE
      [] e.type \in {"LoadDocument", "DeleteDocument"} -> e.arg <= Len(s.savedDocuments)
      [] OTHER -> TRUE

Handle(s, u, t, e) ==
    CASE e.type = "MouseDown" -> handleMouseDown(s, u, e.point, e.arg, t)
      [] e.type = "MouseMove" -> handleMouseMove(s, u, e.point, t)
      [] e.type = "MouseUp" -> handleMouseUp(s, u)
      [] e.type = "DoubleClick" -> handleDoubleClick(s, u, e.point)
      [] e.type = "TextKeyDown" -> onKeyDown(s, u, e.arg)
      [] e.type = "KeyDown" -> Out(handleKeyDown(s, e.arg, t), u)
      [] e.type = "KeyUp" -> Out(handleKeyUp(s, e.arg), u)
      [] e.type = "ToggleMathMode" -> Out(toggleMathMode(s), u)
      [] e.type = "SetCurrentTool" -> Out(setCurrentTool(s, e.arg), u)
      [] e.type = "SetCurrentColor" -> Out(setCurrentColor(s, e.arg), u)
      [] e.type = "SetCurrentStrokeWidth" -> Out(setCurrentStrokeWidth(s, e.arg), u)
      [] e.type = "SetZoom" -> Out(setZoom(s, e.arg), u)
      [] e.type = "ResetView" -> Out(resetView(s), u)
      [] e.type = "Undo" -> Out(undo(s), u)
      [] e.type = "Redo" -> Out(redo(s), u)
      [] e.type = "Clear" -> Out(clear(s), u)
      [] e.type = "DeleteSelected" -> Out(deleteSelected(s), u)
      [] e.type = "NewDocument" -> Out(newDocument(s), u)
      [] e.type = "SaveDocument" -> Out(saveDocument(s, e.arg, t), u)
      [] e.type = "LoadDocument" -> Out(loadDocument(s, s.savedDocuments[e.arg]), u)
      [] e.type = "DeleteDocument" -> Out(deleteDocument(s, s.savedDocuments[e.arg].id), u)

(***************************************************************************)
(* What the properties observe of a run (obs).  None of it is read by a    *)
(* handler.                                                                *)
(*   steps     events delivered since the initial state                    *)
(*   lastOp    the type of the last event                                  *)
(*   n         the committed operations of the last event                  *)
(*   ahead     the snapshots ahead of historyIndex before the last event   *)
(*   atEnd     "undo" when the last event was an undo at index 0, "redo"   *)
(*             when it was a redo at the last index, else "none"           *)
(*   ends      the kinds of atEnd seen so far                              *)
(*   moved     a mouse-move has been delivered since the last mouse-down    *)
(*   commits   committed operations since the last new document, while     *)
(*             linear: no undo and no load since then                      *)
(*   rt        a round trip: after a committing event, undos effective     *)
(*             undos then redos effective redos, with the scene and the    *)
(*             history as they were before the first undo                  *)
(*   txt       the text edit a click of the text tool started, followed    *)
(*             while only keys are typed into it                           *)
(*   done      how the followed edit ended in the last event               *)
(***************************************************************************)
IsKey(e, k, ctrl, shift) == IF e.type = "KeyDown" THEN e.arg = Key(k, ctrl, shift) ELSE FALSE
IsUndo(e) == e.type = "Undo" \/ IsKey(e, "z", TRUE, FALSE)
IsRedo(e) == e.type = "Redo" \/ IsKey(e, "z", TRUE, TRUE) \/ IsKey(e, "y", TRUE, FALSE)

\* a mouse-down outside the box of the edit handleMouseDown sees
ClickAway(s, u, e) ==
    IF e.type = "MouseDown" /\ u.editingText # Null
    THEN ~InsideLiveText(s, u.editingText, e.point)
    ELSE FALSE

\* the store after the text branch of handleMouseDown
AfterText(s, u, e) ==
    IF ClickAway(s, u, e) THEN TextBranch(s, u) ELSE s

\* the click-away commits the text of the store's edit
TextCommit(s, u, e) ==
    IF ClickAway(s, u, e) /\ s.editingText # Null
    THEN TrimNonEmpty(u.editingText.text) /\ TrimNonEmpty(s.editingText.text)
    ELSE FALSE

Count(b) == IF b THEN 1 ELSE 0

\* an undo that finds no snapshot behind, a redo that finds none ahead
AtEnd(s, e) ==
    IF IsUndo(e) /\ s.historyIndex = 0 THEN "undo"
    ELSE IF IsRedo(e) /\ s.historyIndex = Len(s.history) - 1 THEN "redo"
    ELSE "none"

\* the committed operations of one event: a text commit, an erase that
\* removes a stroke, each finished drag, resize or rotate, a pen or shape
\* commit, delete-selected, clear, the recolor of a selection
Committed(s, u, e, r) ==
    CASE e.type = "MouseDown" ->
            Count(TextCommit(s, u, e))
            + Count(s.currentTool = "eraser"
                    /\ Len(r.s.strokes) < Len(AfterText(s, u, e).strokes))
      [] e.type = "MouseMove" ->
            Count(s.currentTool = "eraser" /\ Len(r.s.strokes) < Len(s.strokes))
      [] e.type = "MouseUp" ->
            Count(s.resizeHandle \in Handles) + Count(s.isRotating) + Count(s.isDragging)
            + Count(u.isDrawing /\ s.currentTool = "pen" /\ s.currentStroke # Null)
            + Count(s.isDrawingShape /\ s.currentTool \in ShapeTools /\ s.currentStroke # Null)
      [] e.type = "KeyDown" ->
            Count(e.arg.key \in {"Delete", "Backspace"} /\ Len(s.selectedStrokes) > 0)
      [] e.type \in {"DeleteSelected", "Clear"} -> 1
      [] e.type = "SetCurrentColor" ->
            Count(s.currentTool = "select" /\ Len(s.selectedStrokes) > 0)
      [] OTHER -> 0

\* the event opens a new document
IsNew(e, r) ==
    \/ e.type = "NewDocument"
    \/ IsKey(e, "n", TRUE, FALSE)
    \/ e.type = "DeleteDocument" /\ r.s.currentDocument = Null

IdleTrip == [phase |-> "idle", undos |-> 0, redos |-> 0,
             strokes |-> <<>>, history |-> <<>>, historyIndex |-> 0]

ObserveTrip(o, s, e, n) ==
    IF n > 0 THEN [IdleTrip EXCEPT !.phase = "committed"]
    ELSE IF IsUndo(e) /\ o.rt.phase \in {"committed", "undo"} /\ s.historyIndex > 0
    THEN IF o.rt.phase = "committed"
         THEN [phase |-> "undo", undos |-> 1, redos |-> 0, strokes |-> s.strokes,
               history |-> s.history, historyIndex |-> s.historyIndex]
         ELSE [o.rt EXCEPT !.undos = @ + 1]
    ELSE IF IsRedo(e) /\ o.rt.phase \in {"undo", "redo"} /\ o.rt.redos < o.rt.undos
    THEN [o.rt EXCEPT !.phase = "redo", !.redos = @ + 1]
    ELSE IdleTrip

NoEdit == [active |-> FALSE, id |-> 0, x |-> 0, y |-> 0, len0 |-> 0, idx0 |-> 0,
           scene0 |-> <<>>]
NotDone == [kind |-> "none", id |-> 0, x |-> 0, y |-> 0, len0 |-> 0, idx0 |-> 0,
            scene0 |-> <<>>, text |-> <<>>]

\* handleMouseDown reached startTextEdit
StartsEdit(s, u, e, r) ==
    IF e.type = "MouseDown" /\ r.s.editingText # Null
    THEN /\ s.currentTool = "text" /\ e.arg # "pan"
         /\ IF u.editingText # Null THEN ClickAway(s, u, e) ELSE TRUE
    ELSE FALSE

ObserveEdit(o, s, u, e, r) ==
    IF StartsEdit(s, u, e, r)
    THEN IF FindById(r.s.strokes, r.s.editingText.id) = 0
         THEN [active |-> TRUE, id |-> r.s.editingText.id, x |-> e.point.x, y |-> e.point.y,
               len0 |-> Len(r.s.history), idx0 |-> r.s.historyIndex,
               scene0 |-> r.s.strokes]
         ELSE NoEdit
    ELSE IF e.type = "TextKeyDown" /\ e.arg # "Escape" THEN o.txt
    ELSE NoEdit

Ended(o, s, kind) ==
    [kind |-> kind, id |-> o.txt.id, x |-> o.txt.x, y |-> o.txt.y, len0 |-> o.txt.len0,
     idx0 |-> o.txt.idx0, scene0 |-> o.txt.scene0, text |-> s.editingText.text]

ObserveDone(o, s, u, e, r) ==
    IF o.txt.active /\ s.editingText # Null
    THEN IF e.type = "TextKeyDown" /\ e.arg = "Escape" THEN Ended(o, s, "cancelled")
         ELSE IF ClickAway(s, u, e)
         THEN IF Len(s.editingText.text) > 0 THEN Ended(o, s, "committed")
              ELSE Ended(o, s, "cancelled")
         ELSE NotDone
    ELSE NotDone

Observe(o, s, u, e, r) ==
    LET With(n) ==
            [steps |-> o.steps + 1,
             lastOp |-> e.type,
             n |-> n,
             ahead |-> Len(s.history) - 1 - s.historyIndex,
             atEnd |-> AtEnd(s, e),
             moved |-> IF e.type = "MouseDown" THEN FALSE
                       ELSE IF e.type = "MouseMove" THEN TRUE ELSE o.moved,
             ends |-> o.ends \cup ({AtEnd(s, e)} \ {"none"}),
             commits |-> IF IsNew(e, r) THEN 0
                         ELSE IF o.linear /\ ~IsUndo(e) /\ e.type # "LoadDocument"
                         THEN o.commits + n ELSE 0,
             linear |-> IF IsNew(e, r) THEN TRUE
                        ELSE o.linear /\ ~IsUndo(e) /\ e.type # "LoadDocument",
             rt |-> ObserveTrip(o, s, e, n),
             txt |-> ObserveEdit(o, s, u, e, r),
             done |-> ObserveDone(o, s, u, e, r)]
    IN  With(Committed(s, u, e, r))

InitObs == [steps |-> 0, lastOp |-> "Init", n |-> 0, ahead |-> 0, atEnd |-> "none",
            moved |-> FALSE,
            ends |-> {}, commits |-> 0,
            linear |-> TRUE, rt |-> IdleTrip, txt |-> NoEdit, done |-> NotDone]

(***************************************************************************)
(* Runs.  Deliver gives the state after one event; an event that cannot    *)
(* occur leaves the state.  Run delivers a sequence of events.             *)
(***************************************************************************)
State(s, u, t, o) == [st |-> s, ui |-> u, now |-> t, obs |-> o]

Deliver(S, e) ==
    IF e.type = "Tick" THEN [S EXCEPT !.now = @ + 1]
    ELSE IF Enabled(S.st, S.ui, e)
    THEN LET After(r) == State([r.s EXCEPT !.touched = FALSE], Rendered(S.st, r.s, r.u),
                                   S.now, Observe(S.obs, S.st, S.ui, e, r))
         IN  After(Handle(S.st, S.ui, S.now, e))
    ELSE S

RECURSIVE Run(_, _)
Run(S, events) ==
    IF events = <<>> THEN S
    ELSE Run(Deliver(S, Head(events)), Tail(events))

\* the state after construction
Fresh == State(InitStore, InitUi, 0, InitObs)

\* The initial states: the fresh board, and the boards these first events
\* leave: a pen stroke; a pen stroke and, a tick later, a rectangle; a text
\* typed and committed by a click; a pen stroke clicked with the select tool;
\* the committed text under edit again; the two strokes undone; the text tool
\* picked with stroke width 8; a new text begun with them a tick after a pen
\* stroke was undone; a pen stroke pressed with the select tool, a drag begun.
DrawPen == <<Ev("MouseDown", Pt(0, 0), "none"), Ev("MouseUp", Null, "")>>
DrawRectangle ==
    <<Ev("Tick", Null, ""), Ev("SetCurrentTool", Null, "rectangle"),
      Ev("MouseDown", Pt(40, 0), "none"), Ev("MouseMove", Pt(0, 0 - 40), ""),
      Ev("MouseUp", Null, "")>>
TypeText ==
    <<Ev("SetCurrentTool", Null, "text"), Ev("MouseDown", Pt(0, 0), "none"),
      Ev("TextKeyDown", Null, "a"), Ev("MouseDown", Pt(40, 0), "none")>>
ClickStroke == <<Ev("MouseDown", Pt(0, 0), "none"), Ev("MouseUp", Null, "")>>
\* a committed text opened again by a double click; two strokes taken back;
\* the text tool picked, and its first click
EditText == TypeText \o <<Ev("DoubleClick", Pt(0, 0), "")>>
UndoTwice == DrawPen \o DrawRectangle \o <<Ev("Undo", Null, ""), Ev("Undo", Null, "")>>
PickText == <<Ev("SetCurrentStrokeWidth", Null, 8), Ev("SetCurrentTool", Null, "text")>>
BeginText ==
    DrawPen \o <<Ev("Undo", Null, ""), Ev("Tick", Null, "")>> \o PickText
        \o <<Ev("MouseDown", Pt(0, 0), "none")>>
PressStroke ==
    DrawPen \o <<Ev("SetCurrentTool", Null, "select"), Ev("MouseDown", Pt(0, 0), "none")>>
Openings ==
    {<<>>, DrawPen, DrawPen \o DrawRectangle, TypeText, DrawPen \o ClickStroke, EditText,
     UndoTwice, PickText, BeginText, PressStroke}

Start(events) == [Run(Fresh, events) EXCEPT !.obs.steps = 0]

Init == \E events \in Openings : \E S \in {Start(events)} :
    /\ st = S.st
    /\ ui = S.ui
    /\ now = S.now
    /\ obs = S.obs

\* one event of the exploration
Fire(e) ==
    /\ obs.steps < MaxSteps
    /\ Enabled(st, ui, e)
    /\ \E S \in {Deliver(State(st, ui, now, obs), e)} :
          /\ Within(S.st)
          /\ st' = S.st /\ ui' = S.ui /\ obs' = S.obs /\ now' = now

Tick ==
    /\ now < MaxNow
    /\ now' = now + 1
    /\ UNCHANGED <<st, ui, obs>>

MouseDown == \E point \in Points, mod \in Modifiers :
    /\ Fire(Ev("MouseDown", point, mod))
MouseMove == \E point \in Points :
    /\ Fire(Ev("MouseMove", point, ""))
\* mouseup and mouseleave share the handler
MouseUp ==
    /\ Fire(Ev("MouseUp", Null, ""))
DoubleClick == \E point \in Points :
    /\ Fire(Ev("DoubleClick", point, ""))
TextKeyDown == \E key \in TextKeys :
    /\ Fire(Ev("TextKeyDown", Null, key))
KeyDown == \E e \in KeyEvents :
    /\ Fire(Ev("KeyDown", Null, e))
KeyUp ==
    /\ Fire(Ev("KeyUp", Null, " "))
ToggleMathMode ==
    /\ Fire(Ev("ToggleMathMode", Null, ""))

\* the toolbar and the file manager
SetCurrentTool == \E tool \in Tools :
    /\ Fire(Ev("SetCurrentTool", Null, tool))
SetCurrentColor == \E color \in Colors :
    /\ Fire(Ev("SetCurrentColor", Null, color))
SetCurrentStrokeWidth == \E width \in StrokeWidths :
    /\ Fire(Ev("SetCurrentStrokeWidth", Null, width))
SetZoom == \E zoom \in ZoomLevels :
    /\ Fire(Ev("SetZoom", Null, zoom))
ResetView ==
    /\ Fire(Ev("ResetView", Null, ""))
Undo ==
    /\ Fire(Ev("Undo", Null, ""))
Redo ==
    /\ Fire(Ev("Redo", Null, ""))
Clear ==
    /\ Fire(Ev("Clear", Null, ""))
DeleteSelected ==
    /\ Fire(Ev("DeleteSelected", Null, ""))
NewDocument ==
    /\ Fire(Ev("NewDocument", Null, ""))
SaveDocument == \E name \in {"", "doc"} :
    /\ Fire(Ev("SaveDocument", Null, name))
LoadDocument == \E i \in 1..MaxDocs :
    /\ Fire(Ev("LoadDocument", Null, i))
DeleteDocument == \E i \in 1..MaxDocs :
    /\ Fire(Ev("DeleteDocument", Null, i))

Next ==
    \/ Tick
    \/ MouseDown \/ MouseMove \/ MouseUp \/ DoubleClick
    \/ TextKeyDown \/ KeyDown \/ KeyUp \/ ToggleMathMode
    \/ SetCurrentTool \/ SetCurrentColor \/ SetCurrentStrokeWidth \/ SetZoom \/ ResetView
    \/ Undo \/ Redo \/ Clear \/ DeleteSelected
    \/ NewDocument \/ SaveDocument \/ LoadDocument \/ DeleteDocument

Spec == Init /\ [][Next]_vars

(***************************************************************************)
(* The scene operations on their own.  The store holds a loaded document   *)
(* whose strokes are drawn from SampleStrokes; each action applies one     *)
(* operation of the store or of HitDetector to it, and obs records the     *)
(* operation and its arguments.                                            *)
(***************************************************************************)
SampleStrokes ==
    {[PenStroke(1, Pt(0, 0), "#2563eb", 4) EXCEPT !.points = <<Pt(0, 0), Pt(10, 0)>>],
     PenStroke(2, Pt(40, 20), "#2563eb", 4),
     [ShapeStroke(3, "rectangle", Pt(20, 20), "#2563eb", 4) EXCEPT !.endPoint = Pt(0, 0)],
     [ShapeStroke(4, "line", Pt(0, 20), "#dc2626", 8) EXCEPT !.endPoint = Pt(40, 20)],
     TextStroke(5, 0, 0, "#2563eb", 4, <<"a">>, FALSE),
     TextStroke(6, 40, 20, "#2563eb", 4, <<"a", "a">>, FALSE),
     [PenStroke(7, Pt(0, 0), "#2563eb", 4) EXCEPT !.points = <<>>]}

\* the scenes: sequences of up to MaxScene sample strokes, no stroke twice
Scenes ==
    UNION {{q \in [1..n -> SampleStrokes] : \A i, j \in 1..n : q[i] = q[j] => i = j}
              : n \in 0..MaxScene}

\* the store after loadDocument of a document with these strokes
Loaded(scene) ==
    loadDocument(InitStore, [id |-> 0, name |-> "doc", strokes |-> scene, createdAt |-> 0,
                             updatedAt |-> 0, thumbnail |-> generateThumbnail([strokes |-> scene])])

\* erase positions on and next to the edge of the radius around the samples
ErasePoints == {Pt(x, y) : x \in {0, 8, 9, 28, 29, 31, 32}, y \in {0, 20}}
EraseRadii == {2 * w : w \in StrokeWidths}

NoOp == [op |-> "init", point |-> Null, radius |-> 0, box |-> Null, ids |-> <<>>, hit |-> Null,
         k |-> 0, handle |-> NoHandle, dx |-> 0, dy |-> 0, out |-> Null, back |-> Null, zoom |-> 1,
         path |-> <<>>, commands |-> <<>>, mid |-> Null, via |-> "", saved |-> Null]

SceneInit == \E scene \in Scenes :
    /\ st = [Loaded(scene) EXCEPT !.touched = FALSE]
    /\ ui = InitUi
    /\ now = 0
    /\ obs = NoOp

EraseAt == \E point \in ErasePoints, radius \in EraseRadii :
    /\ st' = [eraseAtPoint(st, point.x, point.y, radius) EXCEPT !.touched = FALSE]
    /\ obs' = [NoOp EXCEPT !.op = "erase", !.point = point, !.radius = radius]
    /\ UNCHANGED <<ui, now>>

\* marquee corners around the samples and their padded text bounds
Corners == {Pt(x, y) : x \in {0, 25, 45}, y \in {0, 25}}

Marquee == \E from \in Corners, to \in Corners :
    \E s \in {updateSelection(startSelection(st, from), to)} :
        /\ st' = [finishSelection(s) EXCEPT !.touched = FALSE]
        /\ obs' = [NoOp EXCEPT !.op = "marquee", !.box = s.selectionBox,
                               !.ids = getStrokesInSelectionBox(st.strokes, s.selectionBox)]
        /\ UNCHANGED <<ui, now>>

\* hit-test positions on the samples, between them and away from all of them
HitPoints == {Pt(0, 0), Pt(30, 20), Pt(33, 20), Pt(60, 60)}

HitTest == \E point \in HitPoints :
    \E i \in {getStrokeAtPoint(point, st.strokes)} :
        /\ obs' = [NoOp EXCEPT !.op = "hit", !.point = point,
                               !.hit = IF i = 0 THEN Null ELSE st.strokes[i]]
        /\ UNCHANGED <<st, ui, now>>

SceneNext ==
    \/ EraseAt
    \/ Marquee
    \/ HitTest

SceneSpec == SceneInit /\ [][SceneNext]_vars

(***************************************************************************)
(* Third specification: whole gestures of the store on one stroke of a    *)
(* loaded scene, next to the StrokeUtils transformation of that stroke.    *)
(***************************************************************************)
\* the samples and a pen stroke so far out that a coordinate moved by an odd
\* delta is no number
GestureStrokes ==
    SampleStrokes \cup {PenStroke(8, Pt(Two(SignificandBits), 0), "#2563eb", 4)}

GestureScenes ==
    UNION {{q \in [1..n -> GestureStrokes] : \A i, j \in 1..n : q[i] = q[j] => i = j}
              : n \in 0..MaxScene}

GestureInit == \E scene \in GestureScenes :
    /\ st = [Loaded(scene) EXCEPT !.touched = FALSE]
    /\ ui = InitUi
    /\ now = 0
    /\ obs = NoOp

\* the pure functions are applied to the scenes as they were loaded
AsLoaded == Len(st.history) = 1

\* pointer positions of a gesture: its deltas are multiples of 5
GesturePoints == {Pt(0, 0), Pt(10, 20), Pt(5, -10)}

\* a whole resize gesture on the k-th stroke, selected alone, next to
\* StrokeUtils.applyResize on the same stroke, handle and delta
Resize == \E k \in 1..Len(st.strokes), handle \in Handles, from \in GesturePoints, to \in GesturePoints :
    \E s \in {startResize(selectStroke(st, st.strokes[k].id, FALSE), handle, from)} :
        /\ Len(st.history) <= MaxGestures
        /\ st' = [finishResize(updateResize(s, to)) EXCEPT !.touched = FALSE]
        /\ obs' = [NoOp EXCEPT !.op = "resize", !.k = k, !.handle = handle,
                               !.dx = to.x - from.x, !.dy = to.y - from.y,
                               !.out = applyResize(s.strokes[k], handle, to.x - from.x, to.y - from.y)]
        /\ UNCHANGED <<ui, now>>

\* StrokeUtils.applyTranslation on the k-th stroke by a delta, and back
TranslateAndBack == \E k \in 1..Len(st.strokes), from \in GesturePoints, to \in GesturePoints :
    \E moved \in {applyTranslation(st.strokes[k], to.x - from.x, to.y - from.y)} :
        /\ AsLoaded
        /\ obs' = [NoOp EXCEPT !.op = "translate", !.k = k,
                               !.dx = to.x - from.x, !.dy = to.y - from.y,
                               !.out = moved,
                               !.back = applyTranslation(moved, from.x - to.x, from.y - to.y)]
        /\ UNCHANGED <<st, ui, now>>

\* pointer positions on, next to and away from the handles of the samples
HandlePoints == {Pt(x, y) : x \in {0 - 10, 0 - 6, 0}, y \in {0 - 36, 0 - 6, 0}}

\* HitDetector.getResizeHandle with none, one or two strokes selected
HandleTest == \E point \in HandlePoints, zoom \in ZoomLevels, n \in 0..2 :
    /\ AsLoaded
    /\ n <= Len(st.strokes)
    /\ obs' = [NoOp EXCEPT !.op = "handle", !.point = point, !.zoom = zoom,
                           !.ids = IdsOf(SubSeq(st.strokes, 1, n)),
                           !.handle = getResizeHandle(point, IdsOf(SubSeq(st.strokes, 1, n)),
                                                      st.strokes, zoom)]
    /\ UNCHANGED <<st, ui, now>>

\* pointer positions above, below, left and right of the centres of the samples
RotatePoints == {Pt(20, 0), Pt(40, 20), Pt(20, 40), Pt(10, 0), Pt(10, 20)}

\* a whole rotate gesture on the k-th stroke, selected alone: startRotate,
\* two updateRotate and finishRotate
Rotate == \E k \in 1..Len(st.strokes), from \in RotatePoints, via \in RotatePoints, to \in RotatePoints :
    \E s0 \in {startRotate(selectStroke(st, st.strokes[k].id, FALSE), from)} :
        \E s1 \in {updateRotate(s0, via)} :
            /\ Len(st.history) <= MaxGestures
            /\ RotateDefined(s0, via)
            /\ RotateDefined(s1, to)
            /\ st' = [finishRotate(updateRotate(s1, to)) EXCEPT !.touched = FALSE]
            /\ obs' = [NoOp EXCEPT !.op = "rotate", !.k = k, !.path = <<from, via, to>>]
            /\ UNCHANGED <<ui, now>>

\* hit-test positions on and off a shape and its quarter turn
TurnedPoints == {Pt(20, 0), Pt(33, 20), Pt(20, 20), Pt(60, 60)}

\* HitDetector.getStrokeAtPoint on the scene as the gestures left it
HitTurned == \E point \in TurnedPoints :
    \E i \in {getStrokeAtPoint(point, st.strokes)} :
        /\ obs' = [NoOp EXCEPT !.op = "hit", !.point = point, !.k = i,
                               !.hit = IF i = 0 THEN Null ELSE st.strokes[i]]
        /\ UNCHANGED <<st, ui, now>>

\* a whole drag gesture with some of the strokes selected: startDrag, two
\* updateDrag and finishDrag
Drag == \E picked \in SUBSET {st.strokes[i].id : i \in 1..Len(st.strokes)} :
    \E from \in GesturePoints, via \in GesturePoints, to \in GesturePoints :
        \E ids \in {IdsOf(SelectSeq(st.strokes, LAMBDA stroke : stroke.id \in picked))} :
            /\ Len(st.history) <= MaxGestures
            /\ st' = [finishDrag(updateDrag(updateDrag(startDrag(selectMultiple(st, ids), from),
                                                        via), to))
                         EXCEPT !.touched = FALSE]
            /\ obs' = [NoOp EXCEPT !.op = "drag", !.ids = ids, !.path = <<from, via, to>>]
            /\ UNCHANGED <<ui, now>>

\* the history commands that may come while the button of a drag is held
RECURSIVE Commanded(_, _)
Commanded(s, commands) ==
    IF commands = <<>> THEN s
    ELSE Commanded(IF Head(commands) = "undo" THEN undo(s) ELSE redo(s), Tail(commands))
Interleavings == {<<"undo">>, <<"redo">>, <<"undo", "redo">>}

\* two drags of the k-th stroke, selected alone: a whole one, and one with
\* the commands between its move and its finishDrag
DragAcross == \E k \in 1..Len(st.strokes), to \in GesturePoints, commands \in Interleavings :
    \E mid \in {finishDrag(updateDrag(startDrag(selectStroke(st, st.strokes[k].id, FALSE),
                                                Pt(0, 0)), Pt(10, 20)))} :
        \E s \in {updateDrag(startDrag(mid, Pt(0, 0)), to)} :
            /\ AsLoaded
            /\ st' = [finishDrag(Commanded(s, commands)) EXCEPT !.touched = FALSE]
            /\ obs' = [NoOp EXCEPT !.op = "dragAcross", !.k = k, !.path = <<Pt(0, 0), to>>,
                                   !.commands = commands, !.out = s.strokes[k],
                                   !.mid = [history |-> mid.history,
                                            historyIndex |-> mid.historyIndex]]
            /\ UNCHANGED <<ui, now>>

GestureNext ==
    \/ Drag
    \/ DragAcross
    \/ Resize
    \/ TranslateAndBack
    \/ HandleTest
    \/ Rotate
    \/ HitTurned

GestureSpec == GestureInit /\ [][GestureNext]_vars

(***************************************************************************)
(* Properties.                                                             *)
(***************************************************************************)
\* C1: in every reachable state, after any sequence of operations,
\* 0 <= historyIndex < history.length.
HistoryIndexInRange == st.historyIndex >= 0 /\ st.historyIndex < Len(st.history)

\* an undo has brought the index back to 0 under a longer history
HistoryIndexAfterUndo ==
    obs.steps > 0 /\ obs.lastOp = "Undo" /\ st.historyIndex = 0 /\ Len(st.history) > 1

\* C2 as stated: in every reachable state the store's strokes list equals
\* history[historyIndex].
SceneIsSnapshot == st.strokes = st.history[st.historyIndex + 1]

\* C2 amended: every event that writes history or historyIndex (a commit, an
\* undo, a redo, a new or loaded document) leaves the strokes list equal to
\* history[historyIndex] up to the selected flags.
SceneIsSnapshotOnWrite ==
    [][(st'.history # st.history \/ st'.historyIndex # st.historyIndex)
          => Unselected(st'.strokes) = Unselected(st'.history[st'.historyIndex + 1])]_vars

\* a click away from a text under edit has committed it and cleared the
\* selection: the scene and the snapshot differ in the selected flags only
CommitThenDeselect ==
    /\ obs.steps > 0 /\ obs.lastOp = "MouseDown" /\ obs.n > 0
    /\ st.strokes # st.history[st.historyIndex + 1]
    /\ Unselected(st.strokes) = Unselected(st.history[st.historyIndex + 1])

\* C3 as stated: whenever no gesture is in progress (no drag, resize, rotate,
\* marquee, pen or shape draft) and no text is being edited, the scene
\* without the selected flags equals history[historyIndex].
NoGesture ==
    /\ ~st.isDragging /\ st.resizeHandle = NoHandle /\ ~st.isRotating
    /\ ~st.isSelecting /\ st.currentStroke = Null /\ ~st.isDrawingShape
    /\ ~ui.isDrawing
SceneFinalizedWhenIdle ==
    (NoGesture /\ st.editingText = Null)
        => Unselected(st.strokes) = Unselected(st.history[st.historyIndex + 1])

\* C4: from a new document, after N committed operations with no undo in
\* between, history.length = N + 1 and historyIndex = N.
OneSnapshotPerCommit ==
    obs.linear => Len(st.history) = obs.commits + 1 /\ st.historyIndex = obs.commits

\* a third operation committed in a row since the new document
ThreeCommitsInARow ==
    obs.steps > 0 /\ obs.linear /\ obs.n > 0 /\ obs.commits = 3 /\ Len(st.history) = 4

\* C5 as stated: after commits, k undos and then k redos, the scene, history
\* and historyIndex are what they were before the undos.
UndoRedoRoundTrip ==
    (obs.rt.phase = "redo" /\ obs.rt.redos = obs.rt.undos)
        => /\ st.strokes = obs.rt.strokes
           /\ st.history = obs.rt.history
           /\ st.historyIndex = obs.rt.historyIndex

\* C6: an event that commits while snapshots are ahead of historyIndex (after
\* one or more undos) leaves canRedo false, and history is then its entries
\* up to the old index followed by the new snapshots: those that were ahead
\* are gone.
RedoBranchDiscarded ==
    [][(obs'.steps = obs.steps + 1 /\ obs'.n > 0 /\ canRedo(st))
          => /\ ~canRedo(st')
             /\ st'.historyIndex = Len(st'.history) - 1
             /\ Len(st'.history) = st.historyIndex + 1 + obs'.n
             /\ SubSeq(st'.history, 1, st.historyIndex + 1)
                    = SubSeq(st.history, 1, st.historyIndex + 1)]_vars

\* a commit has replaced two snapshots that were ahead of the index
CommittedOverFuture ==
    obs.steps > 0 /\ obs.n > 0 /\ obs.ahead = 2 /\ ~canRedo(st) /\ Len(st.history) = 2

\* C7: an undo at historyIndex = 0 and a redo at historyIndex =
\* history.length - 1, from the toolbar or the keyboard, are no-ops: the
\* scene, history and historyIndex (and the rest of the store) are unchanged.
UndoRedoAtEndsNoOp ==
    [][(obs'.steps = obs.steps + 1 /\ obs'.atEnd # "none")
          => /\ st'.strokes = st.strokes
             /\ st'.history = st.history
             /\ st'.historyIndex = st.historyIndex
             /\ st' = st]_vars

\* a redo at the last index and then an undo at index 0 of a longer history
\* have both been delivered
UndoAndRedoAtEnds ==
    /\ obs.steps > 0 /\ obs.atEnd = "undo" /\ obs.ends = {"undo", "redo"}
    /\ st.historyIndex = 0 /\ Len(st.history) > 1

\* C8 as stated: in every reachable state the ids of the strokes whose
\* selected flag is true are the ids in selectedStrokes.
SelectionMirror ==
    {st.strokes[i].id : i \in {j \in 1..Len(st.strokes) : st.strokes[j].selected}}
        = {st.selectedStrokes[k] : k \in 1..Len(st.selectedStrokes)}

\* C9 as stated: non-empty text typed into a freshly started edit and a click
\* away leave exactly one new stroke, of type text, with the typed text, the
\* click position as its single anchor and fontSize = max(16,
\* currentStrokeWidth * 4); history is one longer than before the edit and
\* the tool is select.
TextCommitOnClickAway ==
    obs.done.kind = "committed"
        => /\ Len(st.strokes) = Len(obs.done.scene0) + 1
           /\ Unselected(SubSeq(st.strokes, 1, Len(obs.done.scene0)))
                  = Unselected(obs.done.scene0)
           /\ \E i \in 1..Len(st.strokes) :
                 /\ st.strokes[i].id = obs.done.id
                 /\ st.strokes[i].type = "text"
                 /\ st.strokes[i].text = obs.done.text
                 /\ st.strokes[i].points = <<Pt(obs.done.x, obs.done.y)>>
                 /\ st.strokes[i].fontSize = Max(16, st.currentStrokeWidth * 4)
           /\ Len(st.history) = obs.done.len0 + 1
           /\ st.currentTool = "select"

\* C9 amended: text that is not blank (non-empty after trimming whitespace)
\* typed into a freshly started edit and a click away leave exactly one new
\* stroke, of type text, with the typed text, the click position as its single
\* anchor and fontSize = max(16, currentStrokeWidth * 4); over the whole edit
\* historyIndex grows by exactly 1 and history ends at the new snapshot (so
\* its length grows by exactly 1 when no snapshot was ahead of the index), and
\* the tool is select.
TextCommitOnClickAwayTrimmed ==
    (obs.done.kind = "committed" /\ TrimNonEmpty(obs.done.text))
        => /\ Len(st.strokes) = Len(obs.done.scene0) + 1
           /\ Unselected(SubSeq(st.strokes, 1, Len(obs.done.scene0)))
                  = Unselected(obs.done.scene0)
           /\ \E i \in 1..Len(st.strokes) :
                 /\ st.strokes[i].id = obs.done.id
                 /\ st.strokes[i].type = "text"
                 /\ st.strokes[i].text = obs.done.text
                 /\ st.strokes[i].points = <<Pt(obs.done.x, obs.done.y)>>
                 /\ st.strokes[i].fontSize = Max(16, st.currentStrokeWidth * 4)
           /\ st.historyIndex = obs.done.idx0 + 1
           /\ Len(st.history) = obs.done.idx0 + 2
           /\ (obs.done.len0 = obs.done.idx0 + 1 => Len(st.history) = obs.done.len0 + 1)
           /\ st.currentTool = "select"

\* two characters typed with stroke width 8 and committed by a click away
TwoCharactersCommitted ==
    /\ obs.steps > 0 /\ obs.done.kind = "committed" /\ TrimNonEmpty(obs.done.text)
    /\ Len(obs.done.text) = 2 /\ st.currentStrokeWidth = 8
    /\ st.historyIndex = obs.done.idx0 + 1

\* C10 as stated: after the cancel of the edit of a new text, by Escape or by
\* a click away with an empty buffer, no stroke of the scene has the id of
\* the edit.
CancelLeavesNoStroke ==
    obs.done.kind = "cancelled" => FindById(st.strokes, obs.done.id) = 0

\* C11 as stated: with the pen tool, a mouse-up after a mouse-down commits the
\* draft with exactly one history push if a move appended a point to it, and
\* discards it, scene and history unchanged, if the pointer never moved.
PenUp ==
    /\ obs'.steps = obs.steps + 1 /\ obs'.lastOp = "MouseUp"
    /\ ui.isDrawing /\ st.currentTool = "pen" /\ st.currentStroke # Null
PenCommitsOrDiscards ==
    [][PenUp =>
          /\ st'.currentStroke = Null
          /\ IF Len(st.currentStroke.points) > 1
             THEN /\ st'.strokes = Append(st.strokes, st.currentStroke)
                  /\ st'.history = Append(SubSeq(st.history, 1, st.historyIndex + 1),
                                          st'.strokes)
                  /\ st'.historyIndex = st.historyIndex + 1
             ELSE ~obs.moved
                     => /\ st'.strokes = st.strokes
                        /\ st'.history = st.history
                        /\ st'.historyIndex = st.historyIndex]_vars

\* C12: eraseAtPoint(x, y, r) removes exactly the strokes that fail the keep
\* test of their type (text: anchor farther than r; rectangle, ellipse, line:
\* the point outside the min/max box grown by r; pen: no sample point within
\* r), keeps the others in their order, and pushes exactly one snapshot if a
\* stroke was removed and none otherwise.
Far(p, x, y, r) == (p.x - x) * (p.x - x) + (p.y - y) * (p.y - y) > r * r
Kept(stroke, x, y, r) ==
    CASE stroke.type = "text" -> Far(stroke.points[1], x, y, r)
      [] stroke.type \in {"rectangle", "ellipse", "line"} ->
            \/ x < Min(stroke.startPoint.x, stroke.endPoint.x) - r
            \/ x > Max(stroke.startPoint.x, stroke.endPoint.x) + r
            \/ y < Min(stroke.startPoint.y, stroke.endPoint.y) - r
            \/ y > Max(stroke.startPoint.y, stroke.endPoint.y) + r
      [] OTHER -> \A i \in 1..Len(stroke.points) : Far(stroke.points[i], x, y, r)
EraseRemovesExactly ==
    [][obs'.op = "erase" =>
          LET Keep(stroke) == Kept(stroke, obs'.point.x, obs'.point.y, obs'.radius)
          IN  /\ st'.strokes = SelectSeq(st.strokes, Keep)
              /\ IF \E i \in 1..Len(st.strokes) : ~Keep(st.strokes[i])
                 THEN /\ st'.history = Append(SubSeq(st.history, 1, st.historyIndex + 1),
                                              st'.strokes)
                      /\ st'.historyIndex = st.historyIndex + 1
                 ELSE /\ st'.history = st.history
                      /\ st'.historyIndex = st.historyIndex]_vars

\* an erase has removed the first of two strokes and kept the second, a pen
\* stroke with a sample point just outside the radius
ErasedFirstKeptSecond ==
    /\ obs.op = "erase" /\ Len(st.history) = 2 /\ st.historyIndex = 1
    /\ Len(st.history[1]) = 2 /\ st.strokes = <<st.history[1][2]>>
    /\ st.strokes[1].type = "pen"
    /\ \E i \in 1..Len(st.strokes[1].points) :
          (st.strokes[1].points[i].x - obs.point.x) * (st.strokes[1].points[i].x - obs.point.x)
            + (st.strokes[1].points[i].y - obs.point.y) * (st.strokes[1].points[i].y - obs.point.y)
              = 81

\* C13 as stated: the moves and the mouse-up of a resize gesture while 0 or
\* more than 1 strokes are selected, and of a drag gesture while the selection
\* is empty, leave the scene, history and historyIndex unchanged.
OnlyDragOrResize ==
    /\ st.isDragging \/ st.resizeHandle \in Handles
    /\ ~st.isRotating /\ ~st.isSelecting /\ ~st.isDrawingShape /\ st.currentStroke = Null
    /\ ~ui.isDrawing /\ ~ui.isPanning /\ st.editingText = Null
UnmetPrecondition ==
    /\ st.isDragging => Len(st.selectedStrokes) = 0
    /\ st.resizeHandle \in Handles => Len(st.selectedStrokes) # 1
GestureWithoutSelectionNoOp ==
    [][(/\ obs'.steps = obs.steps + 1 /\ obs'.lastOp \in {"MouseMove", "MouseUp"}
        /\ OnlyDragOrResize /\ UnmetPrecondition)
          => /\ st'.strokes = st.strokes
             /\ st'.history = st.history
             /\ st'.historyIndex = st.historyIndex]_vars

\* C14 as stated: right after any mouse-up or mouse-leave (both run
\* handleMouseUp) no gesture is left dangling: isDragging, isSelecting,
\* isRotating and isDrawingShape are false, resizeHandle is null, the local
\* drawing flag is false and currentStroke is null, whatever the tool is by then.
NoDanglingGestureAfterMouseUp ==
    obs.lastOp = "MouseUp"
        => /\ ~st.isDragging /\ ~st.isSelecting /\ ~st.isRotating /\ ~st.isDrawingShape
           /\ st.resizeHandle = NoHandle
           /\ ~ui.isDrawing
           /\ st.currentStroke = Null

\* C15 as stated: in every reachable state at most one gesture is active among
\* panning, marquee selection, drag, resize, rotate, pen drawing or erasing
\* (the local drawing flag), shape drawing and text editing.
ActiveGestures ==
    {g \in {"pan", "select", "drag", "resize", "rotate", "draw", "shape", "text"} :
        \/ g = "pan" /\ ui.isPanning
        \/ g = "select" /\ st.isSelecting
        \/ g = "drag" /\ st.isDragging
        \/ g = "resize" /\ st.resizeHandle \in Handles
        \/ g = "rotate" /\ (st.isRotating \/ st.resizeHandle = "rotate")
        \/ g = "draw" /\ ui.isDrawing
        \/ g = "shape" /\ st.isDrawingShape
        \/ g = "text" /\ st.editingText # Null}
AtMostOneGesture ==
    Cardinality(ActiveGestures) <= 1

\* C16 as stated: no two strokes of the scene ever share an id.
UniqueStrokeIds ==
    \A i, j \in 1..Len(st.strokes) : st.strokes[i].id = st.strokes[j].id => i = j

\* C17: a setCurrentTool(t) with t other than select leaves selectedStrokes
\* empty and every selected flag of the scene false, and changes neither
\* history nor historyIndex.
ToolChangeClearsSelection ==
    [][(/\ obs'.steps = obs.steps + 1 /\ obs'.lastOp = "SetCurrentTool"
        /\ st'.currentTool # "select")
          => /\ st'.selectedStrokes = <<>>
             /\ \A i \in 1..Len(st'.strokes) : ~st'.strokes[i].selected
             /\ Len(st'.strokes) = Len(st.strokes)
             /\ st'.history = st.history
             /\ st'.historyIndex = st.historyIndex]_vars
\* the tool was changed right after a click had selected a stroke: the snapshot
\* of the click holds the selected flag, the scene no longer does
SelectionDroppedByTool ==
    /\ obs.steps = 1 /\ obs.lastOp = "SetCurrentTool" /\ st.currentTool \in {"pen", "eraser"}
    /\ Len(st.strokes) > 0 /\ st.selectedStrokes = <<>>
    /\ \A i \in 1..Len(st.strokes) : ~st.strokes[i].selected
    /\ \E i \in 1..Len(st.history[st.historyIndex + 1]) : st.history[st.historyIndex + 1][i].selected

\* C18 as stated: finishing a marquee sets the selection to exactly the
\* strokes meeting the rule of their type against the normalized box (pen: a
\* sample point inside; text: the anchor inside; shape: its min/max box
\* overlaps), clears the marquee state and writes nothing to history; and
\* HitDetector.getStrokesInSelectionBox gives the same id list.
InMarquee(stroke, box) ==
    LET lo == Pt(Min(box.startX, box.endX), Min(box.startY, box.endY))
        hi == Pt(Max(box.startX, box.endX), Max(box.startY, box.endY))
        Inside(p) == lo.x <= p.x /\ p.x <= hi.x /\ lo.y <= p.y /\ p.y <= hi.y
    IN  IF stroke.type = "text" THEN Inside(stroke.points[1])
        ELSE IF stroke.type = "pen" THEN \E i \in 1..Len(stroke.points) : Inside(stroke.points[i])
        ELSE /\ Min(stroke.startPoint.x, stroke.endPoint.x) <= hi.x
             /\ Max(stroke.startPoint.x, stroke.endPoint.x) >= lo.x
             /\ Min(stroke.startPoint.y, stroke.endPoint.y) <= hi.y
             /\ Max(stroke.startPoint.y, stroke.endPoint.y) >= lo.y
MarqueeSelectsByRule ==
    [][obs'.op = "marquee" =>
          LET Rule(stroke) == InMarquee(stroke, obs'.box)
          IN  /\ st'.selectedStrokes = IdsOf(SelectSeq(st.strokes, Rule))
              /\ obs'.ids = st'.selectedStrokes
              /\ ~st'.isSelecting /\ st'.selectionBox = Null
              /\ st'.history = st.history /\ st'.historyIndex = st.historyIndex]_vars

\* C19: getStrokeAtPoint returns the stroke latest in the scene whose hit
\* region (text: its computed bounds; shape: its min/max box widened by 12;
\* pen: a sample point within max(14, strokeWidth + 10)) contains the point,
\* and null when no stroke matches, as on an empty scene or for a stroke with
\* neither points nor start and end points.
HitRegion(stroke, p) ==
    IF stroke.type = "text"
    THEN LET b == calculateBounds(stroke)
         IN  b.minX <= 10 * p.x /\ 10 * p.x <= b.maxX /\ b.minY <= 10 * p.y /\ 10 * p.y <= b.maxY
    ELSE IF stroke.type = "pen"
    THEN \E i \in 1..Len(stroke.points) :
            LET dx == stroke.points[i].x - p.x
                dy == stroke.points[i].y - p.y
                r == Max(14, stroke.strokeWidth + 10)
            IN  dx * dx + dy * dy <= r * r
    ELSE /\ Min(stroke.startPoint.x, stroke.endPoint.x) - 12 <= p.x
         /\ p.x <= Max(stroke.startPoint.x, stroke.endPoint.x) + 12
         /\ Min(stroke.startPoint.y, stroke.endPoint.y) - 12 <= p.y
         /\ p.y <= Max(stroke.startPoint.y, stroke.endPoint.y) + 12
HitTestTopmostWins ==
    [][obs'.op = "hit" =>
          LET Latest(hits) ==
                  IF hits = {} THEN obs'.hit = Null
                  ELSE \E i \in hits : (\A j \in hits : j <= i) /\ obs'.hit = st.strokes[i]
          IN  Latest({i \in 1..Len(st.strokes) : HitRegion(st.strokes[i], obs'.point)})]_vars
\* two strokes under the point, the later one returned
LaterOfTwoHit ==
    /\ obs.op = "hit" /\ Len(st.strokes) = 2
    /\ HitRegion(st.strokes[1], obs.point) /\ HitRegion(st.strokes[2], obs.point)
    /\ obs.hit = st.strokes[2] /\ obs.hit # st.strokes[1]

\* C20 as stated: right after loadDocument(doc) the scene is doc.strokes,
\* history is the single entry holding that list with historyIndex 0, the
\* selection is empty, there is no draft and no editing text, every gesture
\* flag is cleared and the view is zoom 1, pan (0,0); right after newDocument
\* the same with an empty scene; and undo and redo then change nothing.
ReplacedBy(scene) ==
    /\ st.strokes = scene
    /\ st.history = <<scene>> /\ st.historyIndex = 0
    /\ st.selectedStrokes = <<>>
    /\ st.currentStroke = Null /\ st.editingText = Null
    /\ ~st.isSelecting /\ ~st.isDragging /\ ~st.isRotating /\ ~st.isDrawingShape
    /\ st.resizeHandle = NoHandle /\ st.selectionBox = Null
    /\ st.zoom = 1 /\ st.panX = 0 /\ st.panY = 0
    /\ undo(st) = st /\ redo(st) = st
DocumentReplacesState ==
    /\ obs.lastOp = "NewDocument" => ReplacedBy(<<>>)
    /\ obs.lastOp = "LoadDocument" => ReplacedBy(st.currentDocument.strokes)

\* C21: with the select tool and a non-empty selection, setCurrentColor(c)
\* sets the color of exactly the strokes whose id is selected to c, leaves every
\* other stroke and every other field of the recolored ones unchanged and
\* pushes exactly one snapshot; with an empty selection or another tool it
\* changes only currentColor. No other field of the store changes but isModified.
RecolorsExactlySelection ==
    [][(obs'.steps = obs.steps + 1 /\ obs'.lastOp = "SetCurrentColor") =>
          /\ [st' EXCEPT !.strokes = st.strokes, !.history = st.history,
                         !.historyIndex = st.historyIndex, !.currentColor = st.currentColor,
                         !.isModified = st.isModified] = st
          /\ IF st.currentTool = "select" /\ Len(st.selectedStrokes) > 0
             THEN /\ st'.strokes = [i \in 1..Len(st.strokes) |->
                                       IF \E k \in 1..Len(st.selectedStrokes) :
                                             st.selectedStrokes[k] = st.strokes[i].id
                                       THEN [st.strokes[i] EXCEPT !.color = st'.currentColor]
                                       ELSE st.strokes[i]]
                  /\ st'.history = Append(SubSeq(st.history, 1, st.historyIndex + 1), st'.strokes)
                  /\ st'.historyIndex = st.historyIndex + 1
             ELSE /\ st'.strokes = st.strokes
                  /\ st'.history = st.history
                  /\ st'.historyIndex = st.historyIndex]_vars
\* one of two strokes was selected and recolored, the other kept its color
OneOfTwoRecolored ==
    /\ obs.lastOp = "SetCurrentColor" /\ st.currentTool = "select"
    /\ Len(st.strokes) = 2 /\ Len(st.selectedStrokes) = 1 /\ st.historyIndex > 0
    /\ \E i, j \in 1..2 :
          /\ st.strokes[i].id = st.selectedStrokes[1] /\ st.strokes[j].id # st.selectedStrokes[1]
          /\ st.strokes[i].color = "#dc2626" /\ st.strokes[j].color = "#2563eb"
          /\ Len(st.history[st.historyIndex]) = 2
          /\ st.history[st.historyIndex][i].color = "#2563eb"
          /\ st.history[st.historyIndex + 1][i].color = "#dc2626"

\* C22 as stated: when a selection is active, setCurrentStrokeWidth(w) makes
\* the strokeWidth of every selected stroke w.
WidthAppliesToSelection ==
    [][(/\ obs'.steps = obs.steps + 1 /\ obs'.lastOp = "SetCurrentStrokeWidth"
        /\ st.currentTool = "select" /\ Len(st.selectedStrokes) > 0)
          => \A i \in 1..Len(st'.strokes) :
                (\E k \in 1..Len(st.selectedStrokes) : st.selectedStrokes[k] = st'.strokes[i].id)
                    => st'.strokes[i].strokeWidth = st'.currentStrokeWidth]_vars

\* C23: for a shape stroke, a resize by handle h with delta (dx, dy) moves
\* exactly the coordinates of the handle map (nw: start.x, start.y; ne: end.x,
\* start.y; sw: start.x, end.y; se: end.x, end.y; n: start.y; s: end.y;
\* w: start.x; e: end.x) and nothing else, and the store's updateResize and
\* StrokeUtils.applyResize give the same stroke for every handle and delta.
HandleMoves(h) ==
    [sx |-> h \in {"nw", "sw", "w"}, sy |-> h \in {"nw", "ne", "n"},
     ex |-> h \in {"ne", "se", "e"}, ey |-> h \in {"sw", "se", "s"}]
Moved(stroke, h, dx, dy) ==
    LET By(on, d) == IF on THEN d ELSE 0
    IN  [stroke EXCEPT !.startPoint = Pt(stroke.startPoint.x + By(HandleMoves(h).sx, dx),
                                         stroke.startPoint.y + By(HandleMoves(h).sy, dy)),
                       !.endPoint = Pt(stroke.endPoint.x + By(HandleMoves(h).ex, dx),
                                       stroke.endPoint.y + By(HandleMoves(h).ey, dy))]
ResizeMovesHandleCoordinates ==
    [][obs'.op = "resize" =>
          /\ Len(st'.strokes) = Len(st.strokes)
          /\ st'.strokes[obs'.k] = obs'.out
          /\ st.strokes[obs'.k].type \in ShapeTools
                => st'.strokes[obs'.k] = Moved([st.strokes[obs'.k] EXCEPT !.selected = TRUE],
                                               obs'.handle, obs'.dx, obs'.dy)
          /\ \A i \in 1..Len(st.strokes) :
                i # obs'.k => st'.strokes[i] = [st.strokes[i] EXCEPT !.selected = FALSE]]_vars
\* the rectangle from (20,20) to (0,0) resized by se with (10,20): its end
\* point is (10,20) and its start point is where it was
RectangleResizedBySe ==
    /\ obs.op = "resize" /\ obs.handle = "se" /\ obs.dx = 10 /\ obs.dy = 20
    /\ st.strokes[obs.k].type = "rectangle"
    /\ st.strokes[obs.k].startPoint = Pt(20, 20) /\ st.strokes[obs.k].endPoint = Pt(10, 20)
    /\ st.history[st.historyIndex][obs.k].endPoint = Pt(0, 0)
    /\ obs.out = st.strokes[obs.k]

\* C24 as stated: applyTranslation(applyTranslation(s, dx, dy), -dx, -dy)
\* equals s on its positional fields (points, startPoint, endPoint) for every
\* stroke type, and applyTranslation changes none of rotation, id, type,
\* color, strokeWidth, text and fontSize.
Positions(stroke) == <<stroke.points, stroke.startPoint, stroke.endPoint>>
Attributes(stroke) ==
    <<stroke.rotation, stroke.id, stroke.type, stroke.color, stroke.strokeWidth,
      stroke.text, stroke.fontSize>>
TranslationRoundTrip ==
    [][obs'.op = "translate" =>
          /\ Positions(obs'.back) = Positions(st.strokes[obs'.k])
          /\ Attributes(obs'.out) = Attributes(st.strokes[obs'.k])
          /\ Attributes(obs'.back) = Attributes(st.strokes[obs'.k])]_vars
\* C24 amended: the round trip gives back every coordinate c of s to within
\* twice the rounding error of the translated coordinate c + d, hence exactly
\* whenever the translated coordinates are numbers; and applyTranslation
\* changes none of rotation, id, type, color, strokeWidth, text and fontSize.
Near(p, q, dx, dy) ==
    IF p = Null THEN q = Null
    ELSE /\ Abs(q.x - p.x) <= 2 * Abs(Plus(p.x, dx) - (p.x + dx))
         /\ Abs(q.y - p.y) <= 2 * Abs(Plus(p.y, dy) - (p.y + dy))
TranslationRoundTripRounded ==
    [][obs'.op = "translate" =>
          LET s == st.strokes[obs'.k]
              Back(b) ==
                  /\ Len(b.points) = Len(s.points)
                  /\ \A i \in 1..Len(s.points) : Near(s.points[i], b.points[i], obs'.dx, obs'.dy)
                  /\ Near(s.startPoint, b.startPoint, obs'.dx, obs'.dy)
                  /\ Near(s.endPoint, b.endPoint, obs'.dx, obs'.dy)
          IN  /\ Back(obs'.back)
              /\ Attributes(obs'.out) = Attributes(s)
              /\ Attributes(obs'.back) = Attributes(s)]_vars
\* a pen stroke at the first coordinate whose odd neighbours are no numbers,
\* moved by (5,-10) and back: it returns one unit short in x, exactly in y
MovedAndBackOneShort ==
    /\ obs.op = "translate" /\ obs.dx = 5 /\ obs.dy = 0 - 10
    /\ st.strokes[obs.k].points = <<Pt(Two(SignificandBits), 0)>>
    /\ obs.out.points = <<Pt(Two(SignificandBits) + 4, 0 - 10)>>
    /\ obs.back.points = <<Pt(Two(SignificandBits) - 1, 0)>>

\* C25: with a shape tool, a mouse-down (not a panning one, no text edit open)
\* creates a draft with startPoint = endPoint = the click, a move updates only
\* the draft's endPoint, and the mouse-up commits the draft as the topmost
\* stroke with exactly one history push, also when the shape has zero size.
ShapeStep(op) ==
    /\ obs'.steps = obs.steps + 1 /\ obs'.lastOp = op
    /\ st.currentTool \in ShapeTools
DraftOfShape ==
    /\ st.isDrawingShape /\ st.currentStroke # Null
    /\ st.currentStroke.type \in ShapeTools
HistoryKept ==
    /\ st'.strokes = st.strokes /\ st'.history = st.history
    /\ st'.historyIndex = st.historyIndex
ShapeDraftThenCommit ==
    [][/\ (ShapeStep("MouseDown") /\ ui.editingText = Null /\ ~ui'.isPanning)
            => /\ st'.isDrawingShape /\ st'.currentStroke # Null
               /\ st'.currentStroke.type = st.currentTool
               /\ st'.currentStroke.startPoint \in Points
               /\ st'.currentStroke.endPoint = st'.currentStroke.startPoint
               /\ HistoryKept
       /\ (ShapeStep("MouseMove") /\ DraftOfShape)
            => /\ st'.isDrawingShape /\ st'.currentStroke # Null
               /\ st'.currentStroke.endPoint \in Points
               /\ st'.currentStroke = [st.currentStroke EXCEPT !.endPoint = st'.currentStroke.endPoint]
               /\ HistoryKept
       /\ (ShapeStep("MouseUp") /\ DraftOfShape)
            => /\ st'.strokes = Append(st.strokes, st.currentStroke)
               /\ st'.history = Append(SubSeq(st.history, 1, st.historyIndex + 1), st'.strokes)
               /\ st'.historyIndex = st.historyIndex + 1
               /\ st'.currentStroke = Null /\ ~st'.isDrawingShape]_vars
\* C26 as stated: getResizeHandle reports a resize handle only for points
\* inside the square of side 8/zoom centred on the handle's position (a corner
\* or an edge midpoint of the stroke's box padded by 6/zoom) and the rotate
\* handle only within 8/zoom of its centre, 30/zoom above the top edge; it
\* returns null when the number of selected strokes is not 1.  Lengths are in
\* tenths of a unit; the strokes tested are not rotated.
HandleCentre(b, name, zoom) ==
    Pt(CASE name \in {"nw", "sw", "w"} -> b.minX - 60 \div zoom
         [] name \in {"ne", "se", "e"} -> b.maxX + 60 \div zoom
         [] OTHER -> (b.minX + b.maxX) \div 2,
       CASE name \in {"nw", "ne", "n"} -> b.minY - 60 \div zoom
         [] name \in {"sw", "se", "s"} -> b.maxY + 60 \div zoom
         [] name = "rotate" -> b.minY - 60 \div zoom - 300 \div zoom
         [] OTHER -> (b.minY + b.maxY) \div 2)
HandleOnlyInItsSquare ==
    [][obs'.op = "handle" =>
          LET At(c) == Pt(10 * obs'.point.x - c.x, 10 * obs'.point.y - c.y)
              InSquare(d) == 2 * Abs(d.x) <= 80 \div obs'.zoom /\ 2 * Abs(d.y) <= 80 \div obs'.zoom
              InCircle(d) == d.x * d.x + d.y * d.y <= (80 \div obs'.zoom) * (80 \div obs'.zoom)
              Of(stroke) ==
                  /\ obs'.handle \in Handles
                        => InSquare(At(HandleCentre(HandleBox(stroke), obs'.handle, obs'.zoom)))
                  /\ obs'.handle = "rotate"
                        => InCircle(At(HandleCentre(HandleBox(stroke), "rotate", obs'.zoom)))
          IN  IF Len(obs'.ids) # 1 THEN obs'.handle = NoHandle
              ELSE st.strokes[1].rotation = 0 => Of(st.strokes[1])]_vars


\* C27: hit-testing agrees with the bounds geometry of a turned shape: for a
\* shape with non-zero rotation, every point getStrokeAtPoint accepts for it
\* lies within calculateBounds(stroke) expanded by 12, and every point inside
\* calculateBounds(stroke) is accepted (that shape or one above it is hit).
TurnedShape(stroke) == HasEnds(stroke) /\ stroke.rotation # 0
HitAgreesWithTurnedBounds ==
    [][IF obs'.op = "hit"
       THEN /\ IF obs'.k # 0
               THEN TurnedShape(st.strokes[obs'.k])
                       => InBox(Scale(obs'.point), Padded(calculateBounds(st.strokes[obs'.k]), 120))
               ELSE TRUE
            /\ \A i \in 1..Len(st.strokes) :
                  (TurnedShape(st.strokes[i]) /\ InBox(Scale(obs'.point), calculateBounds(st.strokes[i])))
                      => obs'.k >= i
       ELSE TRUE]_vars

\* C28: a rotate gesture (startRotate, updateRotate twice, finishRotate) with
\* exactly one stroke selected changes only that stroke's rotation, by the sum
\* of the two deltas; the positional fields and the other strokes stay, and
\* finishRotate pushes exactly one snapshot; finishRotate when not rotating
\* changes nothing.
Direction(stroke, p) ==
    Atan2(p.y * 10 - RotateCentre(stroke).y, p.x * 10 - RotateCentre(stroke).x)
Turning(stroke, path) ==
    (Direction(stroke, path[2]) - Direction(stroke, path[1]))
        + (Direction(stroke, path[3]) - Direction(stroke, path[2]))
RotateChangesOnlyRotation ==
    [][IF obs'.op = "rotate"
       THEN /\ st'.strokes = [selectStroke(st, st.strokes[obs'.k].id, FALSE).strokes
                                 EXCEPT ![obs'.k].rotation = @ + Turning(st.strokes[obs'.k], obs'.path)]
            /\ st'.history = Append(st.history, st'.strokes)
            /\ st'.historyIndex = st.historyIndex + 1
            /\ ~st'.isRotating /\ st'.rotateStart = Null
            /\ st'.selectedStrokes = <<st.strokes[obs'.k].id>>
            /\ finishRotate(st') = st'
       ELSE TRUE]_vars
\* the line from (0,20) to (40,20) turned from above its centre to its right
\* and on to below it: two quarter turns, its ends where they were
LineTurnedTwice ==
    /\ obs.op = "rotate" /\ obs.path = <<Pt(20, 0), Pt(40, 20), Pt(20, 40)>>
    /\ st.strokes[obs.k].type = "line" /\ st.strokes[obs.k].rotation = 180
    /\ st.strokes[obs.k].startPoint = Pt(0, 20) /\ st.strokes[obs.k].endPoint = Pt(40, 20)
    /\ Len(st.history) = 2 /\ st.history[1][obs.k].rotation = 0


\* C29: indexToLineCol and lineColToIndex agree: for every index i in
\* 0..text.length, lineColToIndex(text, indexToLineCol(text, i)) = i and the
\* column is at most the length of its line; and while a text is edited the
\* caret index is within 0..text.length after every insert, Enter, Backspace,
\* Delete and arrow key.
LineColRoundTrip(text) ==
    \A i \in 0..Len(text) :
        /\ lineColToIndex(text, indexToLineCol(text, i).line, indexToLineCol(text, i).col) = i
        /\ indexToLineCol(text, i).col <= Len(getLines(text)[indexToLineCol(text, i).line + 1])
CaretStaysInText ==
    [][IF obs'.steps = obs.steps + 1 /\ obs'.lastOp = "TextKeyDown" /\ st'.editingText # Null
       THEN /\ LineColRoundTrip(st'.editingText.text)
            /\ ui'.caretIndex \in 0..Len(st'.editingText.text)
       ELSE TRUE]_vars


\* C30: a resize gesture on a selected pen stroke leaves that stroke and the
\* whole scene unchanged: after startResize, updateResize and finishResize the
\* strokes are the strokes the selection left, for every handle and delta, and
\* the snapshot finishResize pushes is that same scene.
PenResizeKeepsScene ==
    [][IF obs'.op = "resize"
       THEN st.strokes[obs'.k].type = "pen"
               => /\ st'.strokes = selectStroke(st, st.strokes[obs'.k].id, FALSE).strokes
                  /\ st'.strokes[obs'.k] = [st.strokes[obs'.k] EXCEPT !.selected = TRUE]
                  /\ \A i \in 1..Len(st.strokes) :
                        i # obs'.k => st'.strokes[i] = [st.strokes[i] EXCEPT !.selected = FALSE]
                  /\ st'.history = Append(st.history, st'.strokes)
       ELSE TRUE]_vars
\* the pen stroke through (0,0) and (10,0) after a resize by se with (10,20),
\* a rectangle beside it: its points are where they were
PenResizedBySe ==
    /\ obs.op = "resize" /\ obs.handle = "se" /\ obs.dx = 10 /\ obs.dy = 20
    /\ st.strokes[obs.k].type = "pen"
    /\ st.strokes[obs.k].points = <<Pt(0, 0), Pt(10, 0)>>
    /\ Len(st.strokes) = 2 /\ Len(st.history) = 2
    /\ \E i \in 1..2 : st.strokes[i].type = "rectangle"


\* C31 as stated: after startDrag(p0), updateDrag(p1), updateDrag(p2) and
\* finishDrag every selected stroke is translated by p2 - p0 from where it was
\* at startDrag, every unselected stroke is unchanged, the order of the scene
\* is unchanged, and exactly one history snapshot is pushed.
Net(path) == Pt(path[3].x - path[1].x, path[3].y - path[1].y)
Shifted(stroke, d) ==
    IF stroke.type = "text" /\ Len(stroke.points) > 0
    THEN [stroke EXCEPT !.points = <<Pt(stroke.points[1].x + d.x, stroke.points[1].y + d.y)>>]
    ELSE IF HasEnds(stroke)
    THEN [stroke EXCEPT !.startPoint = Pt(stroke.startPoint.x + d.x, stroke.startPoint.y + d.y),
                        !.endPoint = Pt(stroke.endPoint.x + d.x, stroke.endPoint.y + d.y)]
    ELSE [stroke EXCEPT !.points = [i \in 1..Len(stroke.points) |->
                                       Pt(stroke.points[i].x + d.x, stroke.points[i].y + d.y)]]
OneSnapshotOfScene ==
    /\ Len(st'.strokes) = Len(st.strokes)
    /\ st'.history = Append(st.history, st'.strokes)
    /\ st'.historyIndex = st.historyIndex + 1
DragMovesSelectionByNet ==
    [][IF obs'.op = "drag"
       THEN /\ OneSnapshotOfScene
            /\ \A i \in 1..Len(st.strokes) :
                  st'.strokes[i] = IF Includes(obs'.ids, st.strokes[i].id)
                                   THEN Shifted([st.strokes[i] EXCEPT !.selected = TRUE],
                                                Net(obs'.path))
                                   ELSE [st.strokes[i] EXCEPT !.selected = FALSE]
       ELSE TRUE]_vars
\* C31 amended: every selected stroke is translated by p2 - p0 to within the
\* rounding errors of the two moves, hence exactly whenever the coordinates
\* it passes through are numbers; nothing else of it changes; every unselected
\* stroke and the order of the scene are unchanged, and exactly one history
\* snapshot is pushed.
Landed(c, out, d1, d2) ==
    Abs(out - (c + d1 + d2))
        <= Abs(Plus(c, d1) - (c + d1)) + Abs(Plus(Plus(c, d1), d2) - (Plus(c, d1) + d2))
LandedAt(p, q, path) ==
    IF p = Null THEN q = Null
    ELSE /\ Landed(p.x, q.x, path[2].x - path[1].x, path[3].x - path[2].x)
         /\ Landed(p.y, q.y, path[2].y - path[1].y, path[3].y - path[2].y)
DraggedTo(s, out, path) ==
    /\ Len(out.points) = Len(s.points)
    /\ \A i \in 1..Len(s.points) : LandedAt(s.points[i], out.points[i], path)
    /\ LandedAt(s.startPoint, out.startPoint, path)
    /\ LandedAt(s.endPoint, out.endPoint, path)
    /\ [out EXCEPT !.points = s.points, !.startPoint = s.startPoint, !.endPoint = s.endPoint]
          = [s EXCEPT !.selected = TRUE]
DragMovesSelectionRounded ==
    [][IF obs'.op = "drag"
       THEN /\ OneSnapshotOfScene
            /\ \A i \in 1..Len(st.strokes) :
                  IF Includes(obs'.ids, st.strokes[i].id)
                  THEN DraggedTo(st.strokes[i], st'.strokes[i], obs'.path)
                  ELSE st'.strokes[i] = [st.strokes[i] EXCEPT !.selected = FALSE]
       ELSE TRUE]_vars
\* the far pen stroke dragged by (5,-10) and then (5,30) with a rectangle left
\* unselected below it: it lands two units short of (10,20) in x
DraggedTwoShort ==
    /\ obs.op = "drag" /\ obs.path = <<Pt(0, 0), Pt(5, 0 - 10), Pt(10, 20)>>
    /\ obs.ids = <<8>> /\ Len(st.strokes) = 2
    /\ st.strokes[1].type = "rectangle" /\ st.strokes[1] = st.history[1][1]
    /\ st.history[1][2].points = <<Pt(Two(SignificandBits), 0)>>
    /\ st.strokes[2].points = <<Pt(Two(SignificandBits) + 8, 20)>>
    /\ Len(st.history) = 2


\* C32: when undo or redo comes between the mouse-down and the mouse-up of a
\* drag, the snapshot finishDrag pushes still holds the selected stroke at its
\* dragged position, and the snapshots that existed before the drag started
\* remain reachable by undo (they are still in the history, at or below
\* historyIndex).
DragSurvivesHistoryCommands ==
    [][IF obs'.op = "dragAcross"
       THEN /\ \E j \in 1..Len(st'.history[st'.historyIndex + 1]) :
                  st'.history[st'.historyIndex + 1][j] = obs'.out
            /\ st'.historyIndex >= obs'.mid.historyIndex
            /\ SubSeq(st'.history, 1, obs'.mid.historyIndex + 1)
                  = SubSeq(obs'.mid.history, 1, obs'.mid.historyIndex + 1)
       ELSE TRUE]_vars


\* C33: in every reachable state every id in selectedStrokes is the id of a
\* stroke of the scene.
SelectionRefersToScene ==
    \A i \in 1..Len(st.selectedStrokes) :
        \E j \in 1..Len(st.strokes) : st.strokes[j].id = st.selectedStrokes[i]


\* C34: while a text edit is active (editingText non-null) no keyboard event,
\* key-down or key-up, the space key included, changes the current tool, the
\* selection or the history.
KeysWhileEditingKeepTool ==
    [][IF /\ obs'.steps = obs.steps + 1
          /\ obs'.lastOp \in {"TextKeyDown", "KeyDown", "KeyUp"}
          /\ st.editingText # Null
       THEN /\ st'.currentTool = st.currentTool
            /\ st'.selectedStrokes = st.selectedStrokes
            /\ st'.history = st.history
            /\ st'.historyIndex = st.historyIndex
       ELSE TRUE]_vars

(***************************************************************************)
(* Fourth specification: the documents.  Two scenes are drawn and saved    *)
(* one after the other; from there each action is one call of the file     *)
(* manager, one save, one edit of the scene or one reload of the page.     *)
(* The clock advances with every action, so every save reads its own time. *)
(* obs.saved remembers the last save: the document's id and the scene as   *)
(* it was when saveDocument was called.                                    *)
(***************************************************************************)
DocScenes ==
    {<<>>,
     <<PenStroke(2, Pt(40, 20), "#2563eb", 4)>>,
     <<[ShapeStroke(3, "rectangle", Pt(20, 20), "#2563eb", 4) EXCEPT !.endPoint = Pt(0, 0)],
       TextStroke(5, 0, 0, "#2563eb", 4, <<"a">>, FALSE)>>}

RECURSIVE Drawn(_, _)
Drawn(s, scene) ==
    IF scene = <<>> THEN s ELSE Drawn(addStroke(s, Head(scene)), Tail(scene))

\* the first scene saved at time 1, and then a new document with the second
\* scene saved at time 2
FirstSaved(first) == saveDocument(Drawn(InitStore, first), "a", 1)
BothSaved(first, second) == saveDocument(Drawn(newDocument(FirstSaved(first)), second), "b", 2)
DocInit == \E first \in DocScenes, second \in DocScenes :
    /\ st \in {[FirstSaved(first) EXCEPT !.touched = FALSE],
               [BothSaved(first, second) EXCEPT !.touched = FALSE]}
    /\ ui = InitUi
    /\ now = 3
    /\ obs = NoOp

DocClock ==
    /\ now < 3 + MaxDocSteps
    /\ now' = now + 1
    /\ UNCHANGED ui

\* the Delete button of the file manager on the i-th saved document
Delete == \E i \in 1..Len(st.savedDocuments) :
    /\ DocClock
    /\ st' = [deleteDocument(st, st.savedDocuments[i].id) EXCEPT !.touched = FALSE]
    /\ obs' = [NoOp EXCEPT !.op = "delete", !.k = i, !.saved = obs.saved]

\* the file manager's click on the i-th saved document
Load == \E i \in 1..Len(st.savedDocuments) :
    /\ DocClock
    /\ st' = [loadDocument(st, st.savedDocuments[i]) EXCEPT !.touched = FALSE]
    /\ obs' = [NoOp EXCEPT !.op = "load", !.k = i, !.saved = obs.saved]

\* saveDocument called with a name or without one, or reached by Ctrl+S
Save == \E via \in {"", "doc", "Ctrl+S"} :
    \E s \in {IF via = "Ctrl+S" THEN handleKeyDown(st, Key("s", TRUE, FALSE), now)
              ELSE saveDocument(st, via, now)} :
        /\ DocClock
        /\ st' = [s EXCEPT !.touched = FALSE]
        /\ obs' = [NoOp EXCEPT !.op = "save", !.via = via,
                               !.saved = [id |-> s.currentDocument.id, scene |-> st.strokes]]

\* an edit of the scene between the document operations
Edits(s) ==
    {addStroke(s, PenStroke(1, Pt(0, 0), "#2563eb", 4)),
     eraseAtPoint(s, 0, 0, 8), eraseAtPoint(s, 40, 20, 8),
     undo(s), setCurrentTool(s, "eraser"), handleKeyDown(s, Key("a", TRUE, FALSE), 0)}

Edit == \E s \in Edits(st) :
    /\ DocClock
    /\ \A i, j \in 1..Len(s.strokes) : s.strokes[i].id = s.strokes[j].id => i = j
    /\ st' = [s EXCEPT !.touched = FALSE]
    /\ obs' = [NoOp EXCEPT !.op = "edit", !.saved = obs.saved]

\* a reload of the page: the store is created anew and the persisted part of
\* the old state is merged into it
Reload ==
    /\ DocClock
    /\ st' = [InitStore EXCEPT !.savedDocuments = st.savedDocuments,
                               !.currentDocument = st.currentDocument,
                               !.currentTool = st.currentTool,
                               !.currentColor = st.currentColor,
                               !.currentStrokeWidth = st.currentStrokeWidth]
    /\ obs' = [NoOp EXCEPT !.op = "reload", !.saved = obs.saved]

DocNext ==
    \/ Delete
    \/ Load
    \/ Save
    \/ Edit
    \/ Reload

DocumentSpec == DocInit /\ [][DocNext]_vars

\* C35: deleteDocument of a document that is not the current one, also when
\* there is no current document, removes that entry from savedDocuments and
\* leaves the scene, history, historyIndex and the selection unchanged.
DeleteOtherKeepsBoard ==
    [][IF /\ obs'.op = "delete"
          /\ now' = now + 1
          /\ IF st.currentDocument = Null THEN TRUE
             ELSE st.currentDocument.id # st.savedDocuments[obs'.k].id
       THEN /\ st'.savedDocuments =
                   SelectSeq(st.savedDocuments,
                             LAMBDA doc : doc.id # st.savedDocuments[obs'.k].id)
            /\ Len(st'.savedDocuments) = Len(st.savedDocuments) - 1
            /\ st'.strokes = st.strokes
            /\ st'.history = st.history
            /\ st'.historyIndex = st.historyIndex
            /\ st'.selectedStrokes = st.selectedStrokes
       ELSE TRUE]_vars

\* C36: after a reload, a current document means the scene is that
\* document's strokes, and a save that follows stores the same strokes.
ReloadShowsCurrentDocument ==
    [][/\ IF obs'.op = "reload" /\ now' = now + 1 /\ st'.currentDocument # Null
          THEN st'.strokes = st'.currentDocument.strokes
          ELSE TRUE
       /\ IF obs.op = "reload" /\ obs'.op = "save" /\ now' = now + 1 /\ st.currentDocument # Null
          THEN st'.currentDocument.strokes = st.currentDocument.strokes
          ELSE TRUE]_vars

\* C37: loading the document of the last save shows the scene as it was at
\* that save, whatever happened in between; a save, also by Ctrl+S, leaves
\* the scene, the history, the selection and the tool alone, and it appends
\* one entry when no document is current and else replaces exactly the
\* entry that has the current document's id.
SaveKeepsBoardAndLoadsBack ==
    [][/\ IF obs'.op = "load" /\ now' = now + 1 /\ obs.saved # Null
          THEN IF st.savedDocuments[obs'.k].id = obs.saved.id
               THEN st'.strokes = obs.saved.scene
               ELSE TRUE
          ELSE TRUE
       /\ IF obs'.op = "save" /\ now' = now + 1
          THEN /\ st'.strokes = st.strokes
               /\ st'.history = st.history
               /\ st'.historyIndex = st.historyIndex
               /\ st'.selectedStrokes = st.selectedStrokes
               /\ st'.currentTool = st.currentTool
               /\ st'.currentDocument.strokes = st.strokes
               /\ IF st.currentDocument = Null
                  THEN st'.savedDocuments = Append(st.savedDocuments, st'.currentDocument)
                  ELSE /\ st'.currentDocument.id = st.currentDocument.id
                       /\ Len(st'.savedDocuments) = Len(st.savedDocuments)
                       /\ \A i \in 1..Len(st.savedDocuments) :
                             st'.savedDocuments[i] =
                                 IF st.savedDocuments[i].id = st.currentDocument.id
                                 THEN st'.currentDocument
                                 ELSE st.savedDocuments[i]
          ELSE TRUE]_vars

\* the step ran newDocument or loadDocument: by the file manager, by Ctrl+N,
\* or by deleteDocument when it leaves no current document
OpensDocument ==
    \/ obs'.lastOp \in {"NewDocument", "LoadDocument"}
    \/ obs'.lastOp = "DeleteDocument" /\ st'.currentDocument = Null
    \/ obs'.lastOp = "KeyDown" /\ st' = [newDocument(st) EXCEPT !.touched = FALSE]

\* C38: no step other than newDocument and loadDocument changes a snapshot
\* stored at an index up to historyIndex; the transient updates of a drag,
\* a resize, a rotation, a text edit or a selection leave them all alone.
SnapshotsImmutable ==
    [][IF obs'.steps = obs.steps + 1 /\ ~OpensDocument
       THEN \A i \in 1..(st.historyIndex + 1) :
               IF i <= Len(st.history)
               THEN i <= Len(st'.history) /\ st'.history[i] = st.history[i]
               ELSE TRUE
       ELSE TRUE]_vars

\* a drag has ended: the snapshot it pushed holds the stroke where it was
\* dragged to, the snapshot before it still holds the stroke where it was
SnapshotKeptAfterDrag ==
    /\ obs.lastOp = "MouseUp"
    /\ obs.moved
    /\ obs.steps >= 2
    /\ obs.n = 1
    /\ Len(st.history) = 3
    /\ st.historyIndex = 2
    /\ Len(st.history[2]) = 1
    /\ Len(st.history[3]) = 1
    /\ st.history[3][1].id = st.history[2][1].id
    /\ st.history[3][1].points # st.history[2][1].points
    /\ st.strokes = st.history[3]

\* what an edit of the text may change is blanked out
BesidesText(stroke) == [stroke EXCEPT !.text = <<>>, !.mathMode = FALSE, !.selected = FALSE]

\* the scene after the step has the strokes of the scene before it, in their
\* places, and the k-th differs at most in text and mathMode
OnlyTextChanged(k) ==
    /\ Len(st'.strokes) = Len(st.strokes)
    /\ \A i \in 1..Len(st.strokes) :
          IF i > Len(st'.strokes) THEN FALSE
          ELSE IF i = k THEN BesidesText(st'.strokes[i]) = BesidesText(st.strokes[i])
          ELSE Unselected(st'.strokes)[i] = Unselected(st.strokes)[i]

\* the step pushed exactly one snapshot, the scene it left (the selected
\* flags aside, which the rest of the handler may clear)
PushedScene ==
    /\ st'.historyIndex = st.historyIndex + 1
    /\ Len(st'.history) = st'.historyIndex + 1
    /\ Unselected(st'.history[Len(st'.history)]) = Unselected(st'.strokes)
    /\ SubSeq(st'.history, 1, st.historyIndex + 1) = SubSeq(st.history, 1, st.historyIndex + 1)

\* the live edit is the edit of this stroke: a text stroke with the edit's
\* id, anchor and text, as handleDoubleClick opens it and updateText keeps it
EditedInPlace(stroke) ==
    /\ stroke.type = "text"
    /\ stroke.id = st.editingText.id
    /\ stroke.points[1] = Pt(st.editingText.x, st.editingText.y)
    /\ stroke.text = st.editingText.text

\* C39: a double click changes neither the scene nor the history; while a
\* text stroke of the scene is edited in place, typing changes
\* only its text and mathMode and pushes nothing; the click away that
\* commits the edit keeps the stroke's id, anchor, fontSize, color, rotation
\* and place in the scene, adds no stroke and pushes exactly one snapshot.
InPlaceEditChangesOnlyText ==
    [][IF obs'.steps = obs.steps + 1 /\ obs'.lastOp = "DoubleClick"
       THEN /\ Unselected(st'.strokes) = Unselected(st.strokes)
            /\ st'.history = st.history
            /\ st'.historyIndex = st.historyIndex
       ELSE IF obs'.steps = obs.steps + 1 /\ st.editingText # Null
       THEN \A k \in {FindById(st.strokes, st.editingText.id)} :
               IF k = 0 THEN TRUE
               ELSE IF ~EditedInPlace(st.strokes[k]) THEN TRUE
               ELSE IF obs'.lastOp \in {"TextKeyDown", "ToggleMathMode"}
               THEN /\ OnlyTextChanged(k)
                    /\ st'.history = st.history
                    /\ st'.historyIndex = st.historyIndex
               ELSE IF /\ obs'.lastOp = "MouseDown"
                       /\ ui.editingText # Null
                       /\ st'.editingText # st.editingText
               THEN /\ OnlyTextChanged(k)
                    /\ IF TrimNonEmpty(st.editingText.text)
                       THEN /\ st'.strokes[k].text = st.editingText.text
                            /\ st'.strokes[k].mathMode = st.editingText.mathMode
                            /\ PushedScene
                       ELSE st'.history = st.history /\ st'.historyIndex = st.historyIndex
               ELSE TRUE
       ELSE TRUE]_vars

\* the text "a" was opened by a double click, a character was typed and a
\* click away committed it: the new snapshot has the stroke with two
\* characters and nothing else changed, the snapshot before has it with one
TextEditedInPlace ==
    /\ obs.lastOp = "MouseDown"
    /\ obs.steps = 2
    /\ st.editingText = Null
    /\ Len(st.history) = 3
    /\ st.historyIndex = 2
    /\ Len(st.strokes) = 1
    /\ Len(st.history[2]) = 1
    /\ Len(st.history[3]) = 1
    /\ st.history[2][1].text = <<"a">>
    /\ Len(st.history[3][1].text) = 2
    /\ st.strokes[1].text = st.history[3][1].text
    /\ BesidesText(st.history[3][1]) = BesidesText(st.history[2][1])

\* the step ran undo, redo or clear: by the toolbar or by Ctrl+Z, Ctrl+Y
Rewinds ==
    \/ obs'.lastOp \in {"Undo", "Redo", "Clear"}
    \/ obs'.lastOp = "KeyDown" /\ st'.history = st.history /\ st'.historyIndex # st.historyIndex

\* a is b with some of its entries left out
RECURSIVE LeftOf(_, _)
LeftOf(a, b) ==
    IF a = <<>> THEN TRUE
    ELSE IF b = <<>> THEN FALSE
    ELSE IF Head(a) = Head(b) THEN LeftOf(Tail(a), Tail(b))
    ELSE LeftOf(a, Tail(b))

\* C40: apart from undo, redo, clear, newDocument and loadDocument, a step
\* either puts one new stroke after all the strokes of the scene, or leaves
\* the strokes that remain in the order they had.
ZOrderStable ==
    [][IF obs'.steps = obs.steps + 1 /\ ~OpensDocument /\ ~Rewinds
       THEN \/ LeftOf(IdsOf(st'.strokes), IdsOf(st.strokes))
            \/ /\ Len(st'.strokes) = Len(st.strokes) + 1
               /\ IdsOf(SubSeq(st'.strokes, 1, Len(st.strokes))) = IdsOf(st.strokes)
       ELSE TRUE]_vars

\* a second stroke was committed on top of the first, a tick after it
SecondStrokeOnTop ==
    /\ obs.lastOp = "MouseUp"
    /\ obs.steps >= 2
    /\ obs.n = 1
    /\ Len(st.strokes) = 2
    /\ st.strokes[1].id # st.strokes[2].id
    /\ st.historyIndex >= 1
    /\ st.history[st.historyIndex] = <<st.strokes[1]>>

====
